---- MODULE Spec2Model ----
(***************************************************************************)
(* Liquidation pipeline of KITGLOBAL/crypto.                               *)
(*                                                                         *)
(* Part I   the sharded WebSocket manager (LiquidationListener):           *)
(*          start, connectChunk, the open/error/close handlers, the 5 s    *)
(*          reconnect timers and restartConnections.                       *)
(* Part II  the event pipeline behind one open shard connection: the       *)
(*          message handler, processLiquidation, saveLiquidation,          *)
(*          sendRealtimeLiquidationAlert / sendCascadeAlert, sendMessage   *)
(*          and toggleUserNotifications.                                   *)
(***************************************************************************)
EXTENDS Integers, Sequences, FiniteSets, TLC

VARIABLES
    \* ---- LiquidationListener (Part I) ----
    symbols,            \* this.symbols: the universe U, a sequence of symbol ids
    chunkTable,         \* the chunk arrays built by the calls of start(), in creation order
    started,            \* main() has called listener.start()
    sockets,            \* every WebSocket ever constructed, by creation order
    activeSockets,      \* this.activeSockets: sequence of socket ids
    keepAliveIntervals, \* this.keepAliveIntervals: sequence of socket ids owning a ping timer
    runningIntervals,   \* ping timers created by setInterval and not yet cleared
    isRestarting,       \* this.isRestarting
    timers,             \* pending 5000 ms timeouts, in creation (= firing) order
    handed,             \* handed[e]: how many times upstream event e reached processLiquidation
    nCloses,            \* number of close events so far (bounded)
    nRestarts,          \* number of planned refreshes so far (bounded)
    refreshMark,        \* sockets and ping timers that existed when the last refresh began
    \* ---- event pipeline behind socket 1 (Part II) ----
    channelOn,          \* TELEGRAM_CHANNEL_ID is configured
    received,           \* the frames delivered to the 'message' handler, in arrival order
    tasks,              \* one entry per processLiquidation call: its two floating promises
    users,              \* the users collection: rows in insertion order
    liquidations,       \* the liquidations collection, in insertion order
    sendLog,            \* the bot.sendMessage calls issued, in order
    \* ---- the other services (Part III) ----
    muting,             \* menu:mute callbacks between their read and their write
    agg,                \* one call of getAggregatedStats: the venue responses and its progress
    cache,              \* Redis: the value stored under oi_last:<symbol>, per base symbol
    scan,               \* the call of checkOIFluctuations in progress or last finished
    scanLog,            \* every per-symbol pass of checkOIFluctuations that wrote its snapshot or had no stats
    calls,              \* the calls of findOrCreateUser
    clock,              \* the wall clock (UTC), in hours since the first of the month, 00:00
    jobs,               \* the runs of the two cron jobs of ReportingService
    cascade,            \* the cascade detector: its clock, its buckets and what it admitted and flushed
    userStates          \* TelegramService.userStates: the chats in state 'awaiting_threshold'

connVars == <<symbols, chunkTable, started, sockets, activeSockets, keepAliveIntervals,
              runningIntervals, isRestarting, timers, handed, nCloses,
              nRestarts, refreshMark>>

pipeVars == <<channelOn, received, tasks, users, liquidations, sendLog>>

scanVars == <<cache, scan, scanLog>>

cronVars == <<clock, jobs>>

botVars == <<cascade, userStates>>

svcVars == <<muting, agg, scanVars, calls, cronVars, botVars>>

\* what the menu callbacks, the aggregator, the OI scan, findOrCreateUser and
\* the cron jobs each leave alone among the services
notMenu == <<agg, scanVars, calls, cronVars, botVars>>

notAgg == <<muting, scanVars, calls, cronVars, botVars>>

notScan == <<muting, agg, calls, cronVars, botVars>>

notCalls == <<muting, agg, scanVars, cronVars, botVars>>

notCron == <<muting, agg, scanVars, calls, botVars>>

notCascade == <<muting, agg, scanVars, calls, cronVars, userStates>>

notBot == <<muting, agg, scanVars, cronVars, cascade>>

vars == <<connVars, pipeVars, svcVars>>

----------------------------------------------------------------------------
(* Bounds *)
MaxSymbols == 120
MaxCloses == 2
MaxRestarts == 1
MaxEvents == 1
MaxFrames == 2

(* Program constants *)
CHUNK_SIZE == 50

Min(a, b) == IF a < b THEN a ELSE b

SeqRange(s) == {s[i] : i \in 1..Len(s)}

Universe(n) == [i \in 1..n |-> i]

----------------------------------------------------------------------------
(* Part I: LiquidationListener *)

\* a slice that takes one element too many
Slice_inclusiveEnd(s, a, b) == SubSeq(s, a + 1, Min(b + 1, Len(s)))

\* Array.prototype.slice(a, b) on a 0-based array
Slice(s, a, b) == SubSeq(s, a + 1, Min(b, Len(s)))

\* for (let i = 0; i < symbols.length; i += CHUNK_SIZE) chunks.push(symbols.slice(i, i + CHUNK_SIZE))
RECURSIVE ChunkLoop(_, _, _)
ChunkLoop(syms, i, chunks) ==
    IF i < Len(syms)
    THEN ChunkLoop(syms, i + CHUNK_SIZE, Append(chunks, Slice(syms, i, i + CHUNK_SIZE)))
    ELSE chunks

ChunksOf(syms) == ChunkLoop(syms, 0, <<>>)

\* chunkSymbols.map(s => `${s}@forceOrder`): one stream subscription per member
Streams(chunkSymbols) ==
    [j \in 1..Len(chunkSymbols) |-> [symbol |-> chunkSymbols[j], stream |-> "forceOrder"]]

\* new WebSocket(wsURL) with the four handlers attached; the handlers keep
\* the chunkSymbols array (entry ref of chunkTable) and chunkId in their closure
NewSocket(ref, chunkId, origin) ==
    [chunk |-> chunkId, symbolsRef |-> ref, state |-> "connecting",
     listeners |-> TRUE, origin |-> origin, closeEvent |-> "none"]

\* connectChunk applied to the pair <<sockets, activeSockets>>
ConnectChunk(st, ref, chunkId, origin) ==
    [socks  |-> Append(st.socks, NewSocket(ref, chunkId, origin)),
     active |-> Append(st.active, Len(st.socks) + 1)]

\* chunks.forEach((chunk, index) => this.connectChunk(chunk, index + 1));
\* the arrays of this call are entries base+1.. of chunkTable
RECURSIVE ConnectAll(_, _, _, _)
ConnectAll(st, base, n, index) ==
    IF index < n
    THEN ConnectAll(ConnectChunk(st, base + index + 1, index + 1, "start"), base, n, index + 1)
    ELSE st

\* start(): returns at once while a refresh is in progress
StartResult(restarting) ==
    IF restarting
    THEN [socks |-> sockets, active |-> activeSockets, table |-> chunkTable]
    ELSE LET chunks == ChunksOf(symbols)
             st == ConnectAll([socks |-> sockets, active |-> activeSockets],
                              Len(chunkTable), Len(chunks), 0)
         IN [socks |-> st.socks, active |-> st.active, table |-> chunkTable \o chunks]

\* index.ts: listener.start() right after construction
Start ==
    /\ ~started
    /\ started' = TRUE
    /\ LET r == StartResult(isRestarting) IN
          /\ sockets' = r.socks
          /\ activeSockets' = r.active
          /\ chunkTable' = r.table
    /\ UNCHANGED <<pipeVars, svcVars>>
    /\ UNCHANGED <<symbols, keepAliveIntervals, runningIntervals, isRestarting,
                   timers, handed, nCloses, nRestarts, refreshMark>>

\* ws.on('open'): register the 30 s ping interval
SocketOpen(s) ==
    /\ sockets[s].state = "connecting"
    /\ sockets[s].listeners
    /\ sockets' = [sockets EXCEPT ![s].state = "open"]
    /\ keepAliveIntervals' = Append(keepAliveIntervals, s)
    /\ runningIntervals' = runningIntervals \cup {s}
    /\ UNCHANGED <<pipeVars, svcVars>>
    /\ UNCHANGED <<symbols, chunkTable, started, activeSockets, isRestarting, timers, handed,
                   nCloses, nRestarts, refreshMark>>

\* an error handler that schedules a reconnect of its own
ErrorHandlerTimers_alsoReconnects(ref, chunkId) ==
    <<[kind |-> "reconnect", chunk |-> chunkId, ref |-> ref]>>

\* the timeouts the error handler sets: none, it only logs
ErrorHandlerTimers(ref, chunkId) == <<>>

\* ws.on('error'); the transport emits 'close' afterwards
SocketError(s) ==
    /\ sockets[s].state \in {"connecting", "open"}
    /\ sockets[s].listeners
    /\ nCloses < MaxCloses
    /\ nCloses' = nCloses + 1
    /\ sockets' = [sockets EXCEPT ![s].state = "errored"]
    /\ timers' = timers \o ErrorHandlerTimers(sockets[s].symbolsRef, sockets[s].chunk)
    /\ UNCHANGED <<pipeVars, svcVars>>
    /\ UNCHANGED <<symbols, chunkTable, started, activeSockets, keepAliveIntervals,
                   runningIntervals, isRestarting, handed, nRestarts, refreshMark>>

\* the timeouts the close handler sets
CloseHandlerTimers(restarting, ref, chunkId) ==
    IF restarting THEN <<>> ELSE <<[kind |-> "reconnect", chunk |-> chunkId, ref |-> ref]>>

\* ws.on('close') body, for socket s
CloseHandler(s) ==
    /\ sockets' = [sockets EXCEPT ![s].state = "closed",
                                  ![s].closeEvent = IF isRestarting THEN "inRefresh"
                                                                    ELSE "handled"]
    /\ timers' = timers \o CloseHandlerTimers(isRestarting, sockets[s].symbolsRef,
                                              sockets[s].chunk)

\* the peer or the network closes a connecting or open socket
SocketClose(s) ==
    /\ sockets[s].state \in {"connecting", "open"}
    /\ sockets[s].listeners
    /\ nCloses < MaxCloses
    /\ nCloses' = nCloses + 1
    /\ CloseHandler(s)
    /\ UNCHANGED <<pipeVars, svcVars>>
    /\ UNCHANGED <<symbols, chunkTable, started, activeSockets, keepAliveIntervals,
                   runningIntervals, isRestarting, handed, nRestarts, refreshMark>>

\* the 'close' that follows an 'error'
ErroredClose(s) ==
    /\ sockets[s].state = "errored"
    /\ sockets[s].listeners
    /\ CloseHandler(s)
    /\ UNCHANGED <<pipeVars, svcVars>>
    /\ UNCHANGED <<symbols, chunkTable, started, activeSockets, keepAliveIntervals,
                   runningIntervals, isRestarting, handed, nCloses, nRestarts,
                   refreshMark>>

\* ws.removeAllListeners(); ws.terminate() for every socket of activeSockets
TerminateAll(socks, active) ==
    [s \in 1..Len(socks) |->
        IF s \in SeqRange(active)
        THEN [socks[s] EXCEPT !.listeners = FALSE, !.state = "closed"]
        ELSE socks[s]]

\* restartConnections up to its await: the scheduler's 24 h refresh.
\* The 24 h cadence keeps a second refresh from starting inside the 5 s wait.
Restart ==
    /\ started
    /\ ~isRestarting
    /\ nRestarts < MaxRestarts
    /\ nRestarts' = nRestarts + 1
    /\ isRestarting' = TRUE
    /\ sockets' = TerminateAll(sockets, activeSockets)
    /\ activeSockets' = <<>>
    /\ runningIntervals' = runningIntervals \ SeqRange(keepAliveIntervals)
    /\ keepAliveIntervals' = <<>>
    /\ timers' = Append(timers, [kind |-> "restart", chunk |-> 0, ref |-> 0])
    /\ refreshMark' = [sockets |-> 1..Len(sockets), pings |-> runningIntervals]
    /\ UNCHANGED <<pipeVars, svcVars>>
    /\ UNCHANGED <<symbols, chunkTable, started, handed, nCloses>>

\* setTimeout(() => this.connectChunk(chunkSymbols, chunkId), 5000) fires
ReconnectTimer ==
    /\ timers # <<>>
    /\ Head(timers).kind = "reconnect"
    /\ LET r == ConnectChunk([socks |-> sockets, active |-> activeSockets],
                             Head(timers).ref, Head(timers).chunk, "reconnect")
       IN /\ sockets' = r.socks
          /\ activeSockets' = r.active
    /\ timers' = Tail(timers)
    /\ UNCHANGED <<pipeVars, svcVars>>
    /\ UNCHANGED <<symbols, chunkTable, started, keepAliveIntervals, runningIntervals,
                   isRestarting, handed, nCloses, nRestarts, refreshMark>>

\* restartConnections after its await: isRestarting = false; this.start()
RestartResume ==
    /\ timers # <<>>
    /\ Head(timers).kind = "restart"
    /\ isRestarting' = FALSE
    /\ LET r == StartResult(FALSE) IN
          /\ sockets' = r.socks
          /\ activeSockets' = r.active
          /\ chunkTable' = r.table
    /\ timers' = Tail(timers)
    /\ UNCHANGED <<pipeVars, svcVars>>
    /\ UNCHANGED <<symbols, started, keepAliveIntervals, runningIntervals,
                   handed, nCloses, nRestarts, refreshMark>>

\* the chunk a symbol is streamed on, by the subscriptions of the sockets
SocketStreams(s) == Streams(chunkTable[sockets[s].symbolsRef])

Subscribed(s, sym) == \E j \in 1..Len(SocketStreams(s)) : SocketStreams(s)[j].symbol = sym

\* sockets on which a frame for sym arrives and whose 'message' handler runs
Receivers(sym) ==
    {s \in 1..Len(sockets) :
        sockets[s].state = "open" /\ sockets[s].listeners /\ Subscribed(s, sym)}

\* the upstream emits one forceOrder event for a symbol of U; every open
\* connection subscribed to it receives the frame and runs processLiquidation
Emit(sym) ==
    /\ started
    /\ Len(handed) < MaxEvents
    /\ handed' = Append(handed, Cardinality(Receivers(sym)))
    /\ UNCHANGED <<pipeVars, svcVars>>
    /\ UNCHANGED <<symbols, chunkTable, started, sockets, activeSockets, keepAliveIntervals,
                   runningIntervals, isRestarting, timers, nCloses, nRestarts,
                   refreshMark>>

ConnSymbolCounts == {1, CHUNK_SIZE + 1}

InitListener(counts) ==
    /\ symbols \in {Universe(n) : n \in counts}
    /\ chunkTable = <<>>
    /\ started = FALSE
    /\ sockets = <<>>
    /\ activeSockets = <<>>
    /\ keepAliveIntervals = <<>>
    /\ runningIntervals = {}
    /\ isRestarting = FALSE
    /\ timers = <<>>
    /\ handed = <<>>
    /\ nCloses = 0
    /\ nRestarts = 0
    /\ refreshMark = [sockets |-> {}, pings |-> {}]

\* the pipeline before any frame; Part I leaves it alone
IdlePipeline ==
    /\ channelOn = FALSE
    /\ received = <<>>
    /\ tasks = <<>>
    /\ users = <<>>
    /\ liquidations = <<>>
    /\ sendLog = <<>>

\* no menu callback in flight
IdleServices ==
    /\ muting = <<>>
    /\ agg = [pc |-> "idle"]
    /\ cache = <<>>
    /\ scan = [pc |-> "idle"]
    /\ scanLog = <<>>
    /\ calls = <<>>
    /\ cascade = <<>> /\ userStates = {}
    /\ clock = 0
    /\ jobs = <<>>

Init == InitListener(ConnSymbolCounts) /\ IdlePipeline /\ IdleServices

\* the connection manager alone
NextListener ==
    \/ Start
    \/ \E s \in 1..Len(sockets) : SocketOpen(s)
    \/ \E s \in 1..Len(sockets) : SocketError(s)
    \/ \E s \in 1..Len(sockets) : SocketClose(s)
    \/ \E s \in 1..Len(sockets) : ErroredClose(s)
    \/ Restart
    \/ ReconnectTimer
    \/ RestartResume

Next ==
    \/ NextListener
    \/ \E sym \in SeqRange(symbols) : Emit(sym)

Spec == Init /\ [][Next]_vars

\* timers always fire, and an errored socket always closes
FairSpec ==
    /\ Init /\ [][NextListener]_vars
    /\ WF_vars(ReconnectTimer)
    /\ WF_vars(RestartResume)
    /\ WF_vars(\E s \in 1..Len(sockets) : ErroredClose(s))

\* the first call of start() alone, over every size of the universe
InitStart == InitListener(0..MaxSymbols) /\ IdlePipeline /\ IdleServices

NextStart ==
    \/ Start
    \/ \E s \in 1..Len(sockets) : SocketOpen(s)

SpecStart == InitStart /\ [][NextStart]_vars

----------------------------------------------------------------------------
(* Properties of Part I *)

NumChunks == Len(ChunksOf(symbols))

ChunkIds == 1..((CHUNK_SIZE + 1 + CHUNK_SIZE - 1) \div CHUNK_SIZE)

LiveSockets(c) ==
    {s \in 1..Len(sockets) : sockets[s].chunk = c /\ sockets[s].state \in {"connecting", "open"}}

PendingReconnects(c) ==
    Cardinality({i \in 1..Len(timers) : timers[i].kind = "reconnect" /\ timers[i].chunk = c})

ReconnectSockets(c) ==
    Cardinality({s \in 1..Len(sockets) : sockets[s].chunk = c /\ sockets[s].origin = "reconnect"})

HandledCloses(c) ==
    Cardinality({s \in 1..Len(sockets) : sockets[s].chunk = c /\ sockets[s].closeEvent = "handled"})

\* C1 (the at-most-once half of "exactly once"): no upstream event is handed
\* to the downstream handlers more than once, whatever sockets closed, timers
\* fired or refreshes ran before it was emitted.
C1_NeverHandedTwice == \A e \in 1..Len(handed) : handed[e] <= 1

\* the stream symbols of all sockets, concatenated in socket order
RECURSIVE StreamSymbolsFrom(_)
StreamSymbolsFrom(k) ==
    IF k > Len(sockets) THEN <<>>
    ELSE [j \in 1..Len(SocketStreams(k)) |-> SocketStreams(k)[j].symbol]
         \o StreamSymbolsFrom(k + 1)

\* C2: after start() the sockets are the chunks: socket k is tagged k, holds
\* between 1 and 50 forceOrder streams, the streams of the sockets taken in
\* order are exactly U, and every symbol of U is subscribed on exactly one
\* socket.
C2_StartPartitionsUniverse ==
    started =>
        /\ \A k \in 1..Len(sockets) :
              /\ sockets[k].chunk = k
              /\ Len(SocketStreams(k)) \in 1..50
              /\ \A j \in 1..Len(SocketStreams(k)) : SocketStreams(k)[j].stream = "forceOrder"
        /\ StreamSymbolsFrom(1) = symbols
        /\ \A i \in 1..Len(symbols) :
              Cardinality({k \in 1..Len(sockets) : Subscribed(k, symbols[i])}) = 1
        /\ activeSockets = [k \in 1..Len(sockets) |-> k]

C2_Witness ==
    /\ started
    /\ Len(symbols) > 2 * 50
    /\ Len(sockets) = 3
    /\ Len(SocketStreams(3)) < 50

\* C3 (safety half): per chunk, the reconnects scheduled or already performed
\* are exactly the closes that were handled outside a refresh.
C3_OneReconnectPerClose ==
    \A c \in ChunkIds : HandledCloses(c) = PendingReconnects(c) + ReconnectSockets(c)

ChunkDown(c) == started /\ c <= NumChunks /\ LiveSockets(c) = {}

\* C3: every close outside a refresh schedules exactly one reconnect of its
\* chunk, every scheduled reconnect eventually creates a new connecting socket
\* of that chunk, and a chunk without a live connection eventually has one.
C3_ClosedChunkReconnects ==
    /\ []C3_OneReconnectPerClose
    /\ \A c \in ChunkIds : (PendingReconnects(c) > 0) ~> (PendingReconnects(c) = 0)
    /\ \A c \in ChunkIds : ChunkDown(c) ~> (LiveSockets(c) # {})

C3_Witness ==
    \E s \in 1..Len(sockets) : \E t \in 1..Len(sockets) :
        /\ s < t
        /\ sockets[s].origin = "reconnect" /\ sockets[s].closeEvent = "handled"
        /\ sockets[t].origin = "reconnect" /\ sockets[t].chunk = sockets[s].chunk
        /\ sockets[t].state = "connecting"

\* C4: when a planned refresh completes, every socket that existed when it
\* began is terminated, every ping timer registered before it is cleared, and
\* every chunk has exactly one connection that is open or connecting.
C4_RefreshLeavesOneConnectionPerChunk ==
    [][(isRestarting /\ ~isRestarting') =>
          /\ \A s \in refreshMark.sockets :
                sockets'[s].state = "closed" /\ ~sockets'[s].listeners
          /\ refreshMark.pings \cap runningIntervals' = {}
          /\ \A c \in 1..NumChunks :
                Cardinality({s \in 1..Len(sockets') :
                    sockets'[s].chunk = c /\ sockets'[s].state \in {"connecting", "open"}}) = 1
      ]_vars

\* C37: each chunk has at most one registered ping timer and at most one
\* socket in activeSockets, however many times its connection was replaced:
\* the timer and the list entry of a closed connection are gone by the time
\* its replacement is in the list and has registered its own timer.
C37_OneTimerAndOneSocketPerChunk ==
    \A c \in 1..NumChunks :
        /\ Cardinality({i \in 1..Len(keepAliveIntervals) :
                            sockets[keepAliveIntervals[i]].chunk = c}) <= 1
        /\ Cardinality({s \in runningIntervals : sockets[s].chunk = c}) <= 1
        /\ Cardinality({i \in 1..Len(activeSockets) : sockets[activeSockets[i]].chunk = c}) <= 1

----------------------------------------------------------------------------
(* Part II: the pipeline behind one shard connection *)

\* JavaScript numbers as far as the pipeline needs them: a value or NaN
Num(n) == [nan |-> FALSE, v |-> n]

NaN == [nan |-> TRUE, v |-> 0]

\* a * b
Mul(a, b) == IF a.nan \/ b.nan THEN NaN ELSE Num(a.v * b.v)

\* a >= b: false as soon as one side is NaN
Geq(a, b) == ~a.nan /\ ~b.nan /\ a.v >= b.v

Digits == <<"0", "1", "2", "3", "4", "5", "6", "7", "8", "9">>

IsDigit(c) == \E d \in 1..10 : Digits[d] = c

DigitVal(c) == (CHOOSE d \in 1..10 : Digits[d] = c) - 1

RECURSIVE PrefixValue(_, _, _)
PrefixValue(str, i, acc) ==
    IF i <= Len(str) /\ IsDigit(str[i])
    THEN PrefixValue(str, i + 1, acc * 10 + DigitVal(str[i]))
    ELSE acc

\* parseFloat on a string given as its characters: the value of the longest
\* numeric prefix, NaN when there is none (also for a missing field)
ParseFloat(str) ==
    IF Len(str) = 0 \/ ~IsDigit(str[1]) THEN NaN ELSE Num(PrefixValue(str, 1, 0))

\* a side mapping that recognises SELL instead of BUY
SideOf_sellIsLong(S) == IF S = "SELL" THEN "long liquidation" ELSE "short liquidation"

\* orderData.S === 'BUY' ? 'short liquidation' : 'long liquidation'
SideOf(S) == IF S = "BUY" THEN "short liquidation" ELSE "long liquidation"

\* the day-of-month and hour digits of YYYY-MM-DDTHH:mm:ss.sssZ for an instant
\* counted in hours from the first of the month, 00:00 UTC (the other fields
\* of the text are the same for every instant of the model)
IsoText(h) ==
    LET day == (h \div 24) + 1
        hour == h % 24
    IN <<day \div 10, day % 10, hour \div 10, hour % 10>>

\* new Date(orderData.T).toISOString(): the text of the instant, or a RangeError
ToISOString(T) == [iso |-> IsoText(T.ms)]

\* the liquidation object processLiquidation builds
Liquidation(o) ==
    [symbol |-> o.s, side |-> SideOf(o.S), price |-> ParseFloat(o.p),
     quantity |-> ParseFloat(o.q), time |-> ToISOString(o.T)]

\* a handler that does not look at payload.e
HandlerOutcome_noEventCheck(f) ==
    IF f.json = "invalid" \/ f.json = "null" THEN "parseError"
    ELSE IF ~f.hasData THEN "ignored"
    ELSE IF ~f.hasO \/ ~f.o.T.valid THEN "processError"
    ELSE "processed"

\* What the 'message' handler does with a frame:
\*   "parseError"    JSON.parse throws, or parsedMessage is null (caught, logged)
\*   "ignored"       no data member, or data.e is not 'forceOrder'
\*   "processError"  processLiquidation throws before any handler is called:
\*                   payload.o is missing or new Date(o.T) is invalid (caught, logged)
\*   "processed"     persist and fan-out are invoked
HandlerOutcome(f) ==
    IF f.json = "invalid" \/ f.json = "null" THEN "parseError"
    ELSE IF ~f.hasData \/ f.e # "forceOrder" THEN "ignored"
    ELSE IF ~f.hasO \/ ~f.o.T.valid THEN "processError"
    ELSE "processed"

CHANNEL_MIN_LIQUIDATION == 250000

ChatIds == {1, 2}

\* the recipient id of the broadcast channel (not a subscriber's chatId)
CHANNEL == 0

\* findUsersTrackingSymbol: { notificationsEnabled: true, trackedSymbols: symbol },
\* in the order of the collection
RECURSIVE FindUsersFrom(_, _, _)
FindUsersFrom(rows, sym, k) ==
    IF k > Len(rows) THEN <<>>
    ELSE (IF rows[k].notificationsEnabled /\ sym \in rows[k].trackedSymbols
          THEN <<rows[k]>> ELSE <<>>) \o FindUsersFrom(rows, sym, k + 1)

FindUsersTrackingSymbol(rows, sym) == FindUsersFrom(rows, sym, 1)

\* a filter that passes the values up to the threshold
Qualifies_upTo(user, value) == user.notificationsEnabled /\ Geq(Num(user.minLiquidationAlert), value)

\* user.notificationsEnabled && value >= user.minLiquidationAlert
Qualifies(user, value) == user.notificationsEnabled /\ Geq(value, Num(user.minLiquidationAlert))

\* the for-loop over users from position i: the next user it sends to, 0 if none
RECURSIVE NextRecipient(_, _, _)
NextRecipient(snap, value, i) ==
    IF i > Len(snap) THEN 0
    ELSE IF Qualifies(snap[i], value) THEN i
    ELSE NextRecipient(snap, value, i + 1)

\* sendOISurgeAlert: if (user.notificationsEnabled)
QualifiesOI(user) == user.notificationsEnabled

\* the for-loop of sendOISurgeAlert from position i: the next user it sends to, 0 if none
RECURSIVE NextOIRecipient(_, _)
NextOIRecipient(snap, i) ==
    IF i > Len(snap) THEN 0
    ELSE IF QualifiesOI(snap[i]) THEN i
    ELSE NextOIRecipient(snap, i + 1)

\* the task after the loop has moved on from position i - 1, and the send it issues
ContinueLoop(task, t, i) ==
    LET j == IF task.kind = "oi" THEN NextOIRecipient(task.snap, i)
             ELSE NextRecipient(task.snap, task.value, i) IN
    IF j = 0
    THEN [task |-> [task EXCEPT !.pc = "done", !.i = Len(task.snap) + 1], sends |-> <<>>]
    ELSE [task |-> [task EXCEPT !.pc = "userSend", !.i = j],
          sends |-> <<[task |-> t, to |-> task.snap[j].chatId]>>]

\* a channel test that forgets the channel minimum
AlertStart_noFloor(value) == IF channelOn THEN "channelSend" ELSE "query"

\* sendRealtimeLiquidationAlert up to its first await
AlertStart(value) ==
    IF channelOn /\ Geq(value, Num(CHANNEL_MIN_LIQUIDATION)) THEN "channelSend" ELSE "query"

\* processLiquidation(payload.o): saveLiquidation issues the insert, then
\* sendRealtimeLiquidationAlert runs up to its first await; neither is awaited
NewTask(frameIndex, o) ==
    LET liq == Liquidation(o)
        value == Mul(liq.price, liq.quantity)
    IN [frame |-> frameIndex, kind |-> "realtime", liq |-> liq, value |-> value,
        persist |-> "inserting",
        pc |-> AlertStart(value), snap |-> <<>>, i |-> 0, newStatus |-> FALSE,
        atQuery |-> <<>>]

PipeSocketOpen == sockets[1].state = "open" /\ sockets[1].listeners

\* ws.on('message') for one frame on socket 1
Receive(f) ==
    /\ PipeSocketOpen
    /\ Len(received) < MaxFrames
    /\ received' = Append(received, f)
    /\ IF HandlerOutcome(f) = "processed"
       THEN LET t == Len(tasks) + 1
                task == NewTask(Len(received) + 1, f.o)
            IN /\ tasks' = Append(tasks, task)
               /\ sendLog' = IF task.pc = "channelSend"
                             THEN Append(sendLog, [task |-> t, to |-> CHANNEL])
                             ELSE sendLog
       ELSE UNCHANGED <<tasks, sendLog>>
    /\ UNCHANGED <<channelOn, users, liquidations>>
    /\ UNCHANGED <<connVars, svcVars>>

\* the index of the row with this chatId, 0 if there is none (getUser)
RowOf(rows, chatId) ==
    IF \E k \in 1..Len(rows) : rows[k].chatId = chatId
    THEN CHOOSE k \in 1..Len(rows) : rows[k].chatId = chatId
    ELSE 0

\* a saveLiquidation without its try/catch, awaited by processLiquidation: a
\* failed insert ends the handling of the event
InsertCompletes_uncaught(t, ok) ==
    /\ tasks[t].persist = "inserting"
    /\ IF ok
       THEN /\ liquidations' = Append(liquidations, [id |-> t, doc |-> tasks[t].liq])
            /\ tasks' = [tasks EXCEPT ![t].persist = "saved"]
       ELSE /\ tasks' = [tasks EXCEPT ![t].persist = "failed", ![t].pc = "rejected"]
            /\ UNCHANGED liquidations
    /\ UNCHANGED <<channelOn, received, users, sendLog>>
    /\ UNCHANGED <<connVars, svcVars>>

\* collection.insertOne(liquidation) settles; a failure is caught and logged
InsertCompletes(t, ok) ==
    /\ tasks[t].persist = "inserting"
    /\ IF ok
       THEN /\ liquidations' = Append(liquidations, [id |-> t, doc |-> tasks[t].liq])
            /\ tasks' = [tasks EXCEPT ![t].persist = "saved"]
       ELSE /\ tasks' = [tasks EXCEPT ![t].persist = "failed"]
            /\ UNCHANGED liquidations
    /\ UNCHANGED <<channelOn, received, users, sendLog>>
    /\ UNCHANGED <<connVars, svcVars>>

\* sendMessage(TELEGRAM_CHANNEL_ID, message) settles: delivered, 403 (the id is
\* not a number, nothing is toggled) or another error (logged); the users
\* query is issued next
ChannelSendCompletes(t, outcome) ==
    /\ tasks[t].pc = "channelSend"
    /\ tasks' = [tasks EXCEPT ![t].pc = "query"]
    /\ UNCHANGED <<channelOn, received, users, liquidations, sendLog>>
    /\ UNCHANGED <<connVars, svcVars>>

\* await findUsersTrackingSymbol(symbol) settles; it is not inside a try, so
\* a store failure rejects the promise of sendRealtimeLiquidationAlert, which
\* nobody awaits or catches
QueryCompletes(t, ok) ==
    /\ tasks[t].pc = "query"
    /\ IF ok
       THEN LET snap == FindUsersTrackingSymbol(users, tasks[t].liq.symbol)
                task == [tasks[t] EXCEPT !.snap = snap, !.atQuery = users]
                r == IF Len(snap) = 0
                     THEN [task |-> [task EXCEPT !.pc = "done"], sends |-> <<>>]
                     ELSE ContinueLoop(task, t, 1)
            IN /\ tasks' = [tasks EXCEPT ![t] = r.task]
               /\ sendLog' = sendLog \o r.sends
       ELSE /\ tasks' = [tasks EXCEPT ![t].pc = "rejected", ![t].atQuery = users]
            /\ UNCHANGED sendLog
    /\ UNCHANGED <<channelOn, received, users, liquidations>>
    /\ UNCHANGED <<connVars, svcVars>>

\* bot.sendMessage(user.chatId, ...) settles inside sendMessage
UserSendCompletes(t, outcome) ==
    /\ tasks[t].pc = "userSend"
    /\ IF outcome = "blocked"
       THEN /\ tasks' = [tasks EXCEPT ![t].pc = "toggleRead"]
            /\ UNCHANGED sendLog
       ELSE LET r == ContinueLoop(tasks[t], t, tasks[t].i + 1) IN
            /\ tasks' = [tasks EXCEPT ![t] = r.task]
            /\ sendLog' = sendLog \o r.sends
    /\ UNCHANGED <<channelOn, received, users, liquidations>>
    /\ UNCHANGED <<connVars, svcVars>>

\* toggleUserNotifications(chatId): const newStatus = !user.notificationsEnabled;
\* the function declares no second parameter, the `false` of the 403 branch is dropped
NewStatus(current, requested) == ~current

\* toggleUserNotifications: getUser settles (inside the catch block of
\* sendMessage: a failure here rejects sendMessage and the whole fan-out)
ToggleReadCompletes(t, ok) ==
    /\ tasks[t].pc = "toggleRead"
    /\ IF ok
       THEN LET k == RowOf(users, tasks[t].snap[tasks[t].i].chatId) IN
            IF k = 0
            THEN LET r == ContinueLoop(tasks[t], t, tasks[t].i + 1) IN
                 /\ tasks' = [tasks EXCEPT ![t] = r.task]
                 /\ sendLog' = sendLog \o r.sends
            ELSE /\ tasks' = [tasks EXCEPT ![t].pc = "toggleWrite",
                                           ![t].newStatus =
                                               NewStatus(users[k].notificationsEnabled, FALSE)]
                 /\ UNCHANGED sendLog
       ELSE /\ tasks' = [tasks EXCEPT ![t].pc = "rejected"]
            /\ UNCHANGED sendLog
    /\ UNCHANGED <<channelOn, received, users, liquidations>>
    /\ UNCHANGED <<connVars, svcVars>>

\* toggleUserNotifications: updateOne({chatId}, {$set: {notificationsEnabled: newStatus}}) settles
ToggleWriteCompletes(t, ok) ==
    /\ tasks[t].pc = "toggleWrite"
    /\ IF ok
       THEN LET k == RowOf(users, tasks[t].snap[tasks[t].i].chatId)
                r == ContinueLoop(tasks[t], t, tasks[t].i + 1)
            IN /\ users' = IF k = 0 THEN users
                           ELSE [users EXCEPT ![k].notificationsEnabled = tasks[t].newStatus]
               /\ tasks' = [tasks EXCEPT ![t] = r.task]
               /\ sendLog' = sendLog \o r.sends
       ELSE /\ tasks' = [tasks EXCEPT ![t].pc = "rejected"]
            /\ UNCHANGED <<users, sendLog>>
    /\ UNCHANGED <<channelOn, received, liquidations>>
    /\ UNCHANGED <<connVars, svcVars>>

----------------------------------------------------------------------------
(* Frames and initial states of Part II *)

Chars(n) == CASE n = 0 -> <<"0">>
              [] n = 2 -> <<"2">>
              [] n = 6 -> <<"6">>
              [] n = 50000 -> <<"5", "0", "0", "0", "0">>

Order(S, p, q, T) == [s |-> 1, S |-> S, p |-> p, q |-> q, T |-> T]

NoOrder == Order("undefined", <<>>, <<>>, [valid |-> FALSE, ms |-> 0])

ForceOrderFrame(o) == [json |-> "object", hasData |-> TRUE, e |-> "forceOrder", hasO |-> TRUE, o |-> o]

\* frames that do not decode to a liquidation
BadFrames ==
    {[json |-> "invalid", hasData |-> FALSE, e |-> "", hasO |-> FALSE, o |-> NoOrder],
     [json |-> "null", hasData |-> FALSE, e |-> "", hasO |-> FALSE, o |-> NoOrder],
     [json |-> "object", hasData |-> FALSE, e |-> "", hasO |-> FALSE, o |-> NoOrder],
     [json |-> "object", hasData |-> TRUE, e |-> "aggTrade", hasO |-> TRUE,
      o |-> Order("BUY", Chars(50000), Chars(2), [valid |-> TRUE, ms |-> 1])],
     [json |-> "object", hasData |-> TRUE, e |-> "forceOrder", hasO |-> FALSE, o |-> NoOrder]}

\* forceOrder frames with every kind of S, p, q and T
DecodeFrames ==
    BadFrames \cup
    {ForceOrderFrame(Order(S, p, q, T)) :
        S \in {"BUY", "SELL", "buy", "undefined"},
        p \in {Chars(50000), Chars(0), <<"a">>},
        q \in {Chars(2), <<>>},
        T \in {[valid |-> TRUE, ms |-> 1], [valid |-> FALSE, ms |-> 0]}}

\* well-formed frames of 100 000 and 300 000 USD
PipeFrames ==
    {ForceOrderFrame(Order("BUY", Chars(50000), q, [valid |-> TRUE, ms |-> 1])) :
        q \in {Chars(2), Chars(6)}}

Row(chatId, tracked, enabled, min) ==
    [chatId |-> chatId, trackedSymbols |-> tracked, notificationsEnabled |-> enabled,
     minLiquidationAlert |-> min]

\* the users collections the pipeline is run against
UserScenarios ==
    {<<Row(1, {1}, TRUE, 50000), Row(2, {1}, TRUE, 200000)>>,
     <<Row(1, {1}, TRUE, 50000), Row(2, {1}, TRUE, 50000)>>,
     <<Row(1, {1}, FALSE, 0), Row(2, {1}, TRUE, 50000)>>,
     <<Row(1, {}, TRUE, 0), Row(2, {1}, TRUE, 50000)>>}

\* one chunk, its socket open: the state after start() and the 'open' event
OneOpenSocket ==
    /\ symbols = <<1>>
    /\ chunkTable = <<<<1>>>>
    /\ started = TRUE
    /\ sockets = <<[NewSocket(1, 1, "start") EXCEPT !.state = "open"]>>
    /\ activeSockets = <<1>>
    /\ keepAliveIntervals = <<1>>
    /\ runningIntervals = {1}
    /\ isRestarting = FALSE
    /\ timers = <<>>
    /\ handed = <<>>
    /\ nCloses = 0
    /\ nRestarts = 0
    /\ refreshMark = [sockets |-> {}, pings |-> {}]

InitPipe ==
    /\ OneOpenSocket
    /\ IdleServices
    /\ channelOn \in BOOLEAN
    /\ users \in UserScenarios
    /\ received = <<>>
    /\ tasks = <<>>
    /\ liquidations = <<>>
    /\ sendLog = <<>>

NextPipe ==
    \/ \E f \in PipeFrames : Receive(f)
    \/ \E t \in 1..Len(tasks) : \E ok \in BOOLEAN : InsertCompletes(t, ok)
    \/ \E t \in 1..Len(tasks) : \E outcome \in {"ok", "blocked", "error"} : ChannelSendCompletes(t, outcome)
    \/ \E t \in 1..Len(tasks) : \E ok \in BOOLEAN : QueryCompletes(t, ok)
    \/ \E t \in 1..Len(tasks) : \E outcome \in {"ok", "blocked", "error"} : UserSendCompletes(t, outcome)
    \/ \E t \in 1..Len(tasks) : \E ok \in BOOLEAN : ToggleReadCompletes(t, ok)
    \/ \E t \in 1..Len(tasks) : \E ok \in BOOLEAN : ToggleWriteCompletes(t, ok)

\* the asynchronous pipeline: frames, store and Telegram calls interleave
SpecPipe == InitPipe /\ [][NextPipe]_vars

InitDecode ==
    /\ OneOpenSocket
    /\ IdleServices
    /\ channelOn = FALSE
    /\ users = <<Row(1, {1}, TRUE, 50000), Row(2, {1}, TRUE, 200000)>>
    /\ received = <<>>
    /\ tasks = <<>>
    /\ liquidations = <<>>
    /\ sendLog = <<>>

NextDecode ==
    \/ \E f \in DecodeFrames : Receive(f)
    \/ \E t \in 1..Len(tasks) : \E ok \in BOOLEAN : InsertCompletes(t, ok)

\* the message handler over every kind of frame
SpecDecode == InitDecode /\ [][NextDecode]_vars

----------------------------------------------------------------------------
(* Properties of Part II *)

TaskOfFrame(i) == {t \in 1..Len(tasks) : tasks[t].frame = i}

\* C5: the constructed (and the stored) event's side is the short-liquidation
\* value exactly when the frame's S is "BUY", and the long-liquidation value
\* for every other S (SELL, lower-case buy, missing).
C5_SideMapping ==
    /\ \A t \in 1..Len(tasks) :
          LET S == received[tasks[t].frame].o.S IN
          /\ (tasks[t].liq.side = "short liquidation") <=> (S = "BUY")
          /\ (tasks[t].liq.side = "long liquidation") <=> (S # "BUY")
    /\ \A k \in 1..Len(liquidations) :
          LET S == received[tasks[liquidations[k].id].frame].o.S IN
          liquidations[k].doc.side = IF S = "BUY" THEN "short liquidation" ELSE "long liquidation"

C5_Witness ==
    /\ Len(liquidations) = 2
    /\ \E t \in 1..Len(tasks) : \E u \in 1..Len(tasks) :
          /\ received[tasks[t].frame].o.S = "BUY" /\ tasks[t].liq.side = "short liquidation"
          /\ received[tasks[u].frame].o.S = "undefined" /\ tasks[u].liq.side = "long liquidation"

Unparseable(f) == f.json = "invalid"

NotForceOrder(f) == f.json = "null" \/ ~f.hasData \/ f.e # "forceOrder"

WellFormed(f) == f.json = "object" /\ f.hasData /\ f.e = "forceOrder" /\ f.hasO /\ f.o.T.valid

\* C7: a frame that cannot be parsed or is not a forceOrder payload invokes
\* no handler and changes nothing but the count of frames seen, the
\* connection stays open, and every well-formed frame, also one that follows
\* such a frame, is handled exactly once.
C7_BadFrameIsSkipped ==
    /\ [](/\ PipeSocketOpen
          /\ \A i \in 1..Len(received) :
                /\ (Unparseable(received[i]) \/ NotForceOrder(received[i])) => TaskOfFrame(i) = {}
                /\ WellFormed(received[i]) => Cardinality(TaskOfFrame(i)) = 1)
    /\ [][(/\ Len(received') = Len(received) + 1
           /\ (Unparseable(received'[Len(received')]) \/ NotForceOrder(received'[Len(received')])))
          => UNCHANGED <<connVars, channelOn, tasks, users, liquidations, sendLog>>]_vars

C7_Witness ==
    /\ Len(received) = 2
    /\ Unparseable(received[1])
    /\ WellFormed(received[2])
    /\ TaskOfFrame(2) # {}

\* C6: on one connection nothing of a later frame overtakes an earlier frame:
\* the stored documents appear in arrival order and so do the sends.
C6_EarlierFrameNeverOvertaken ==
    /\ \A i \in 1..Len(liquidations) : \A j \in 1..Len(liquidations) :
          i < j => liquidations[i].id < liquidations[j].id
    /\ \A i \in 1..Len(sendLog) : \A j \in 1..Len(sendLog) :
          i < j => sendLog[i].task <= sendLog[j].task

\* C8: no failure of the store or of a send escapes event handling: the
\* connection stays open and no promise of the handlers is left rejected.
C8_NoErrorLeftUnhandled ==
    /\ PipeSocketOpen
    /\ \A t \in 1..Len(tasks) : tasks[t].pc # "rejected"

SendsTo(t, chatId) ==
    Cardinality({i \in 1..Len(sendLog) : sendLog[i].task = t /\ sendLog[i].to = chatId})

\* C9: when the handling of a blocked (403) send to a subscriber completes,
\* that subscriber's notificationsEnabled is false, and no send is repeated.
C9_BlockedSendDisables ==
    [][\A t \in 1..Len(tasks) :
          (/\ tasks[t].pc \in {"toggleRead", "toggleWrite"}
           /\ tasks'[t].pc \notin {"toggleRead", "toggleWrite", "rejected"})
          => /\ \A k \in 1..Len(users') :
                   users'[k].chatId = tasks[t].snap[tasks[t].i].chatId
                   => ~users'[k].notificationsEnabled
             /\ \A u \in ChatIds : SendsTo(t, u)' <= 1
      ]_vars

\* C10: once the fan-out of an event has ended, a subscriber has been sent the
\* alert exactly once if he tracked the symbol, had notifications enabled and
\* a threshold not above the notional when the fan-out ran, and not at all
\* otherwise.
C10_SentIffQualifies ==
    \A t \in 1..Len(tasks) :
        tasks[t].pc \in {"done", "rejected"} =>
            \A k \in 1..Len(tasks[t].atQuery) :
                LET row == tasks[t].atQuery[k] IN
                SendsTo(t, row.chatId) =
                    IF /\ tasks[t].liq.symbol \in row.trackedSymbols
                       /\ row.notificationsEnabled
                       /\ Geq(tasks[t].value, Num(row.minLiquidationAlert))
                    THEN 1 ELSE 0

----------------------------------------------------------------------------
(* Part III: the alerts of TelegramService, called directly *)

MaxAlerts == 1

\* symbols as their characters
BTCUSDT == <<"B", "T", "C", "U", "S", "D", "T">>

ETHUSDT == <<"E", "T", "H", "U", "S", "D", "T">>

\* an alert in flight: a call of sendRealtimeLiquidationAlert, sendCascadeAlert
\* or sendOISurgeAlert that nothing has persisted
AlertTask(kind, payload, value, pc) ==
    [frame |-> 0, kind |-> kind, liq |-> payload, value |-> value, persist |-> "none",
     pc |-> pc, snap |-> <<>>, i |-> 0, newStatus |-> FALSE, atQuery |-> <<>>]

\* the channel send an alert issues when it reaches its channel test
ChannelSends(t, pc) == IF pc = "channelSend" THEN <<[task |-> t, to |-> CHANNEL]>> ELSE <<>>

\* sendRealtimeLiquidationAlert(liquidation), up to its first await
RealtimeAlert(liq) ==
    /\ Len(tasks) < MaxAlerts
    /\ LET value == Mul(liq.price, liq.quantity)
           pc == AlertStart(value)
       IN /\ tasks' = Append(tasks, AlertTask("realtime", liq, value, pc))
          /\ sendLog' = sendLog \o ChannelSends(Len(tasks) + 1, pc)
    /\ UNCHANGED <<channelOn, received, users, liquidations>>
    /\ UNCHANGED <<connVars, svcVars>>

\* sendCascadeAlert(symbol, buffer), up to await getAssetStats(symbol)
CascadeAlert(symbol, buffer) ==
    /\ Len(tasks) < MaxAlerts
    /\ tasks' = Append(tasks, AlertTask("cascade", [symbol |-> symbol, buffer |-> buffer],
                                        Num(buffer.totalVolume), "stats"))
    /\ UNCHANGED <<channelOn, received, users, liquidations, sendLog>>
    /\ UNCHANGED <<connVars, svcVars>>

\* getAssetStats settles inside its try/catch: with or without the OI line
\* the message is built, then the channel test runs
StatsCompletes(t, ok) ==
    /\ tasks[t].pc = "stats"
    /\ LET pc == AlertStart(tasks[t].value)
       IN /\ tasks' = [tasks EXCEPT ![t].pc = pc]
          /\ sendLog' = sendLog \o ChannelSends(t, pc)
    /\ UNCHANGED <<channelOn, received, users, liquidations>>
    /\ UNCHANGED <<connVars, svcVars>>

\* sendOISurgeAlert up to its first await: if (TELEGRAM_CHANNEL_ID)
OIAlertStart == IF channelOn THEN "channelSend" ELSE "query"

\* sendOISurgeAlert(surge)
OISurgeAlert(surge) ==
    /\ Len(tasks) < MaxAlerts
    /\ LET pc == OIAlertStart
       IN /\ tasks' = Append(tasks, AlertTask("oi", surge, NaN, pc))
          /\ sendLog' = sendLog \o ChannelSends(Len(tasks) + 1, pc)
    /\ UNCHANGED <<channelOn, received, users, liquidations>>
    /\ UNCHANGED <<connVars, svcVars>>

\* menu:mute, first half: toggleUserNotifications(chatId) reads the user
MuteRead(chatId) ==
    /\ \A k \in 1..Len(muting) : muting[k].chatId # chatId
    /\ LET k == RowOf(users, chatId) IN
       /\ k # 0
       /\ muting' = Append(muting, [chatId |-> chatId,
                                    newStatus |-> NewStatus(users[k].notificationsEnabled, TRUE)])
    /\ UNCHANGED <<connVars, pipeVars, notMenu>>

\* menu:mute, second half: updateOne writes the negated flag
MuteWrite ==
    /\ Len(muting) > 0
    /\ LET k == RowOf(users, muting[1].chatId) IN
       users' = IF k = 0 THEN users
                ELSE [users EXCEPT ![k].notificationsEnabled = muting[1].newStatus]
    /\ muting' = Tail(muting)
    /\ UNCHANGED <<channelOn, received, tasks, liquidations, sendLog>>
    /\ UNCHANGED <<connVars, notMenu>>

\* liquidations of 100 000 and 300 000 USD on BTCUSDT
AlertLiquidations ==
    {[symbol |-> BTCUSDT, side |-> SideOf("BUY"), price |-> ParseFloat(Chars(50000)),
      quantity |-> ParseFloat(q), time |-> ToISOString([valid |-> TRUE, ms |-> 1])] :
        q \in {Chars(2), Chars(6)}}

\* cascade buckets of 100 000 and 300 000 USD
CascadeBuffers ==
    {[count |-> 5, totalVolume |-> v, minPrice |-> 50000, maxPrice |-> 50000,
      side |-> "long", startTime |-> 1] : v \in {100000, 300000}}

\* a surge as checkOIFluctuations would hand it to the alert
AlertSurges ==
    {[symbol |-> BTCUSDT, previousOI |-> 1000, currentOI |-> 1030,
      percentChange |-> [num |-> 3000, den |-> 1000], price |-> 50000]}

\* users collections: A {min 50k, enabled}, B {min 200k, enabled}; a muted
\* user; and collections in which nobody tracks the symbol
AlertScenarios ==
    {<<Row(1, {BTCUSDT}, TRUE, 50000), Row(2, {BTCUSDT}, TRUE, 200000)>>,
     <<Row(1, {BTCUSDT}, TRUE, 50000), Row(2, {BTCUSDT}, TRUE, 50000)>>,
     <<Row(1, {BTCUSDT}, FALSE, 0), Row(2, {BTCUSDT}, TRUE, 50000)>>,
     <<Row(1, {ETHUSDT}, TRUE, 0), Row(2, {}, TRUE, 0)>>,
     <<>>}

InitAlert ==
    /\ OneOpenSocket
    /\ IdleServices
    /\ channelOn \in BOOLEAN
    /\ users \in AlertScenarios
    /\ received = <<>>
    /\ tasks = <<>>
    /\ liquidations = <<>>
    /\ sendLog = <<>>

NextAlert ==
    \/ \E liq \in AlertLiquidations : RealtimeAlert(liq)
    \/ \E b \in CascadeBuffers : CascadeAlert(BTCUSDT, b)
    \/ \E surge \in AlertSurges : OISurgeAlert(surge)
    \/ \E t \in 1..Len(tasks) : \E ok \in BOOLEAN : StatsCompletes(t, ok)
    \/ \E t \in 1..Len(tasks) : \E outcome \in {"ok", "blocked", "error"} : ChannelSendCompletes(t, outcome)
    \/ \E t \in 1..Len(tasks) : \E ok \in BOOLEAN : QueryCompletes(t, ok)
    \/ \E t \in 1..Len(tasks) : \E outcome \in {"ok", "blocked", "error"} : UserSendCompletes(t, outcome)
    \/ \E t \in 1..Len(tasks) : \E ok \in BOOLEAN : ToggleReadCompletes(t, ok)
    \/ \E t \in 1..Len(tasks) : \E ok \in BOOLEAN : ToggleWriteCompletes(t, ok)

\* the three alerts against the users collection
SpecAlert == InitAlert /\ [][NextAlert]_vars

NextMute ==
    \/ NextAlert
    \/ \E u \in ChatIds : MuteRead(u)
    \/ MuteWrite

\* the alerts while users mute and unmute from the settings menu
SpecMute == InitAlert /\ [][NextMute]_vars

----------------------------------------------------------------------------
(* Properties of Part III *)

\* C11: once a real-time or cascade alert has passed its channel test, it has
\* been sent to the broadcast channel exactly when a channel is configured and
\* its notional is at least the channel minimum, whoever tracks the symbol.
C11_ChannelIffConfiguredAndLarge ==
    \A t \in 1..Len(tasks) :
        (tasks[t].kind \in {"realtime", "cascade"} /\ tasks[t].pc # "stats") =>
            SendsTo(t, CHANNEL) =
                IF channelOn /\ Geq(tasks[t].value, Num(CHANNEL_MIN_LIQUIDATION)) THEN 1 ELSE 0

\* a cascade alert of 300 000 USD has gone to the channel although no user
\* tracks its symbol, and its fan-out has ended without a send
C11_Witness ==
    \E t \in 1..Len(tasks) :
        /\ tasks[t].kind = "cascade"
        /\ tasks[t].pc = "done"
        /\ SendsTo(t, CHANNEL) = 1
        /\ Len(sendLog) = 1
        /\ FindUsersTrackingSymbol(users, BTCUSDT) = <<>>

\* C13: whenever a message is pushed to a subscriber, that subscriber's
\* notificationsEnabled is true at that moment.
C13_NeverSentWhileMuted ==
    [][\A i \in (Len(sendLog) + 1)..Len(sendLog') :
          sendLog'[i].to # CHANNEL =>
              \E k \in 1..Len(users') :
                  /\ users'[k].chatId = sendLog'[i].to
                  /\ users'[k].notificationsEnabled
      ]_vars

----------------------------------------------------------------------------
(* Part IV: MarketDataService.getAggregatedStats *)

MaxUnits == 2

\* USD amounts are held in 1/10000 USD, so that MEXC's contract sizes
\* (0.0001, 0.1, 1) are whole numbers
Unit == 10000

\* a JSON member holding a numeric string, or missing
Missing == [t |-> "missing", s |-> <<>>]

Text(chars) == [t |-> "text", s |-> chars]

\* safeFloat(val): 0 for null, undefined, '' and for what parseFloat cannot read
SafeFloat(j) ==
    IF j.t = "missing" \/ j.s = <<>> THEN 0
    ELSE LET n == ParseFloat(j.s) IN IF n.nan THEN 0 ELSE n.v

\* a fetcher's `return null`
Null == [name |-> "null", price |-> 0, openInterest |-> 0]

\* a Binance fetcher that leaves the open interest in coins
FetchBinance_coins(r) ==
    IF ~r.ok \/ ~r.hasSymbol THEN Null
    ELSE [name |-> "Binance", price |-> SafeFloat(r.price),
          openInterest |-> SafeFloat(r.openInterest) * Unit]

\* fetchBinance: any of the three requests failing, or premium.symbol missing,
\* gives null; OI in coins times the ticker price
FetchBinance(r) ==
    IF ~r.ok \/ ~r.hasSymbol THEN Null
    ELSE LET price == SafeFloat(r.price)
         IN [name |-> "Binance", price |-> price,
             openInterest |-> SafeFloat(r.openInterest) * Unit * price]

\* fetchBybit: request failing, retCode # 0 or an empty list gives null
FetchBybit(r) ==
    IF ~r.ok \/ r.retCode # 0 \/ ~r.hasTicker THEN Null
    ELSE LET price == SafeFloat(r.lastPrice)
             oiSize == SafeFloat(r.openInterest)
         IN [name |-> "Bybit", price |-> price, openInterest |-> oiSize * Unit * price]

\* getMexcContractSize through getOrFetch, in 1/10000: the detail request
\* throwing gives 1, an unsuccessful answer 0.0001; a cache failure throws
MexcContractSize(detail) ==
    CASE detail.kind = "apiError" -> Unit
      [] detail.kind = "noData" -> 1
      [] detail.kind = "ok" -> detail.size
      [] OTHER -> 0

\* fetchMexc: holdVol contracts times contract size times price
FetchMexc(r) ==
    IF ~r.ok \/ r.detail.kind = "cacheError" \/ ~r.success \/ ~r.hasData THEN Null
    ELSE LET price == SafeFloat(r.lastPrice)
             contracts == SafeFloat(r.holdVol)
             contractSize == MexcContractSize(r.detail)
         IN [name |-> "MEXC", price |-> price, openInterest |-> contracts * contractSize * price]

Venues == <<"Binance", "Bybit", "MEXC">>

Fetch(name, resp) ==
    CASE name = "Binance" -> FetchBinance(resp.binance)
      [] name = "Bybit" -> FetchBybit(resp.bybit)
      [] name = "MEXC" -> FetchMexc(resp.mexc)

\* a collection that gives up as soon as one venue has failed
Exchanges_allOrNothing(results, i) ==
    IF \E v \in SeqRange(Venues) : results[v].name = "null" THEN <<>>
    ELSE [k \in 1..Len(Venues) |-> results[Venues[k]]]

\* results.forEach: the fulfilled, non-null values in the order Binance, Bybit, MEXC
RECURSIVE Exchanges(_, _)
Exchanges(results, i) ==
    IF i > Len(Venues) THEN <<>>
    ELSE (IF results[Venues[i]].name # "null" THEN <<results[Venues[i]]>> ELSE <<>>)
         \o Exchanges(results, i + 1)

\* exchanges.reduce((sum, ex) => sum + f(ex), 0)
RECURSIVE Reduce(_, _, _)
Reduce(exs, field, i) ==
    IF i > Len(exs) THEN 0 ELSE exs[i][field] + Reduce(exs, field, i + 1)

\* x put into a sequence sorted by (b, a) => b.openInterest - a.openInterest,
\* behind the elements that compare equal (the sort is stable)
RECURSIVE InsertDesc(_, _, _)
InsertDesc(sorted, x, i) ==
    IF i > Len(sorted) THEN Append(sorted, x)
    ELSE IF sorted[i].openInterest - x.openInterest < 0
         THEN SubSeq(sorted, 1, i - 1) \o <<x>> \o SubSeq(sorted, i, Len(sorted))
         ELSE InsertDesc(sorted, x, i + 1)

\* exchanges.sort((a, b) => b.openInterest - a.openInterest) of the first n elements
RECURSIVE SortDesc(_, _)
SortDesc(exs, n) ==
    IF n = 0 THEN <<>> ELSE InsertDesc(SortDesc(exs, n - 1), exs[n], 1)

\* normalizeSymbol: upper case, only A-Z and 0-9, a trailing USDT removed
UpperOf(c) ==
    CASE c = "b" -> "B" [] c = "t" -> "T" [] c = "c" -> "C" [] c = "e" -> "E"
      [] c = "h" -> "H" [] c = "u" -> "U" [] c = "s" -> "S" [] c = "d" -> "D"
      [] OTHER -> c

AlphaNum == {"B", "T", "C", "E", "H", "U", "S", "D"} \cup SeqRange(Digits)

RECURSIVE KeepAlphaNum(_, _)
KeepAlphaNum(str, i) ==
    IF i > Len(str) THEN <<>>
    ELSE (IF UpperOf(str[i]) \in AlphaNum THEN <<UpperOf(str[i])>> ELSE <<>>)
         \o KeepAlphaNum(str, i + 1)

USDT == <<"U", "S", "D", "T">>

NormalizeSymbol(input) ==
    LET up == KeepAlphaNum(input, 1)
        n == Len(up)
    IN IF n >= 4 /\ SubSeq(up, n - 3, n) = USDT THEN SubSeq(up, 1, n - 4) ELSE up

\* what getAggregatedStats has computed when it reaches redis.set:
\* null with no exchange, else the sums over the exchanges and the sorted list;
\* avgPrice is the fraction sum / count
AggregatedStats(symbolInput, results) ==
    LET exchanges == Exchanges(results, 1) IN
    IF Len(exchanges) = 0
    THEN [isNull |-> TRUE, symbol |-> NormalizeSymbol(symbolInput), totalOpenInterest |-> 0,
          avgPrice |-> [num |-> 0, den |-> 1], exchanges |-> <<>>]
    ELSE [isNull |-> FALSE, symbol |-> NormalizeSymbol(symbolInput),
          totalOpenInterest |-> Reduce(exchanges, "openInterest", 1),
          avgPrice |-> [num |-> Reduce(exchanges, "price", 1), den |-> Len(exchanges)],
          exchanges |-> SortDesc(exchanges, Len(exchanges))]

\* nothing stored under market_agg_v6:<baseSymbol>
NoCached ==
    [present |-> FALSE, stats |-> AggregatedStats(BTCUSDT, [v \in SeqRange(Venues) |-> Null]),
     ttl |-> 0, age |-> 0]

\* one of the three fetchers settles (Promise.allSettled)
VenueSettles(name) ==
    /\ agg.pc = "fetching"
    /\ name \notin agg.settled
    /\ agg' = [agg EXCEPT !.settled = @ \cup {name},
                          !.results[name] = Fetch(name, agg.resp)]
    /\ UNCHANGED <<connVars, pipeVars, notAgg>>

\* all three have settled: the exchanges are collected and aggregated;
\* with none the call returns null, else redis.set is issued
Aggregate ==
    /\ agg.pc = "fetching"
    /\ agg.settled = SeqRange(Venues)
    /\ LET stats == AggregatedStats(agg.symbolInput, agg.results)
       IN agg' = [agg EXCEPT !.pc = IF stats.isNull THEN "returned" ELSE "caching",
                             !.stats = stats]
    /\ UNCHANGED <<connVars, pipeVars, notAgg>>

\* redis.set(cacheKey, stats, 60) settles; a cache failure rejects the call
CacheSetCompletes(ok) ==
    /\ agg.pc = "caching"
    /\ agg' = [agg EXCEPT !.pc = IF ok THEN "returned" ELSE "threw",
                          !.entry = IF ok THEN [present |-> TRUE, stats |-> agg.stats,
                                                ttl |-> 60, age |-> 0]
                                    ELSE @]
    /\ UNCHANGED <<connVars, pipeVars, notAgg>>

\* the decimal digits of n: numeric strings of the venues
RECURSIVE NumText(_)
NumText(n) ==
    IF n < 10 THEN <<Digits[n + 1]>> ELSE NumText(n \div 10) \o <<Digits[(n % 10) + 1]>>

BinanceResponses ==
    {[ok |-> FALSE, hasSymbol |-> FALSE, price |-> Missing, openInterest |-> Missing],
     [ok |-> TRUE, hasSymbol |-> FALSE, price |-> Missing, openInterest |-> Missing]}
    \cup {[ok |-> TRUE, hasSymbol |-> TRUE, price |-> p, openInterest |-> Text(NumText(5 * k))] :
             p \in {Text(NumText(100)), Missing}, k \in 1..MaxUnits}

BybitResponses ==
    {[ok |-> FALSE, retCode |-> 0, hasTicker |-> FALSE, lastPrice |-> Missing, openInterest |-> Missing],
     [ok |-> TRUE, retCode |-> 10001, hasTicker |-> FALSE, lastPrice |-> Missing, openInterest |-> Missing],
     [ok |-> TRUE, retCode |-> 0, hasTicker |-> FALSE, lastPrice |-> Missing, openInterest |-> Missing]}
    \cup {[ok |-> TRUE, retCode |-> 0, hasTicker |-> TRUE, lastPrice |-> Text(NumText(p)),
           openInterest |-> Text(NumText(5 * k))] : p \in {100, 50}, k \in 1..MaxUnits}

MexcDetails ==
    {[kind |-> "cacheError", size |-> 0], [kind |-> "apiError", size |-> 0],
     [kind |-> "noData", size |-> 0], [kind |-> "ok", size |-> 1000]}

MexcResponses ==
    {[ok |-> FALSE, success |-> FALSE, hasData |-> FALSE, lastPrice |-> Missing,
      holdVol |-> Missing, detail |-> [kind |-> "ok", size |-> 1000]],
     [ok |-> TRUE, success |-> FALSE, hasData |-> FALSE, lastPrice |-> Missing,
      holdVol |-> Missing, detail |-> [kind |-> "ok", size |-> 1000]]}
    \cup {[ok |-> TRUE, success |-> TRUE, hasData |-> TRUE, lastPrice |-> Text(NumText(100)),
           holdVol |-> h, detail |-> d] :
             h \in {Text(NumText(20)), Text(<<"x">>)} \cup {Text(NumText(50 * k)) : k \in 1..MaxUnits},
             d \in MexcDetails}

AggInputs ==
    [binance : BinanceResponses, bybit : BybitResponses, mexc : MexcResponses]

\* all venues failing; Binance alone answering; Binance and Bybit answering
RequestInputs ==
    {resp \in AggInputs :
        /\ ~resp.mexc.ok
        /\ resp.binance.ok => (resp.binance.hasSymbol /\ resp.binance.price # Missing)
        /\ resp.bybit.ok => (resp.bybit.hasTicker /\ resp.bybit.retCode = 0
                               /\ resp.bybit.lastPrice = Text(NumText(100)))
        /\ resp.bybit.ok => resp.binance.ok}

InitAgg ==
    /\ OneOpenSocket
    /\ IdlePipeline
    /\ muting = <<>>
    /\ cache = <<>> /\ scan = [pc |-> "idle"] /\ scanLog = <<>>
    /\ calls = <<>> /\ clock = 0 /\ jobs = <<>>
    /\ cascade = <<>> /\ userStates = {}
    /\ \E resp \in AggInputs :
          agg = [pc |-> "fetching", symbolInput |-> BTCUSDT, resp |-> resp, settled |-> {},
                 results |-> [v \in SeqRange(Venues) |-> Null],
                 stats |-> AggregatedStats(BTCUSDT, [v \in SeqRange(Venues) |-> Null]),
                 entry |-> NoCached, n |-> 1]

NextAgg ==
    \/ \E name \in SeqRange(Venues) : VenueSettles(name)
    \/ Aggregate
    \/ \E ok \in BOOLEAN : CacheSetCompletes(ok)

\* one call of getAggregatedStats over every combination of venue answers
SpecAgg == InitAgg /\ [][NextAgg]_vars

MaxRequests == 2

\* getAggregatedStats(symbolInput) is called again after the previous call has
\* ended: the getOrFetch around the body is commented out, so the fetchers
\* are started whatever the cache holds
GetAggregatedStats(resp) ==
    /\ agg.pc \in {"returned", "threw"}
    /\ agg.n < MaxRequests
    /\ agg' = [agg EXCEPT !.pc = "fetching", !.resp = resp, !.settled = {},
                          !.results = [v \in SeqRange(Venues) |-> Null], !.n = @ + 1]
    /\ UNCHANGED <<connVars, pipeVars, notAgg>>

\* 30 s pass for the entry of the cache; it is gone when its TTL is reached
CacheAges ==
    /\ agg.entry.present
    /\ agg' = [agg EXCEPT !.entry = IF @.age + 30 >= @.ttl THEN NoCached
                                    ELSE [@ EXCEPT !.age = @ + 30]]
    /\ UNCHANGED <<connVars, pipeVars, notAgg>>

InitRequests ==
    /\ OneOpenSocket
    /\ IdlePipeline
    /\ muting = <<>>
    /\ cache = <<>> /\ scan = [pc |-> "idle"] /\ scanLog = <<>>
    /\ calls = <<>> /\ clock = 0 /\ jobs = <<>>
    /\ cascade = <<>> /\ userStates = {}
    /\ \E resp \in RequestInputs :
          agg = [pc |-> "fetching", symbolInput |-> BTCUSDT, resp |-> resp, settled |-> {},
                 results |-> [v \in SeqRange(Venues) |-> Null],
                 stats |-> AggregatedStats(BTCUSDT, [v \in SeqRange(Venues) |-> Null]),
                 entry |-> NoCached, n |-> 1]

NextRequests ==
    \/ NextAgg
    \/ \E resp \in RequestInputs : GetAggregatedStats(resp)
    \/ CacheAges

\* requests for the stats of one base symbol, one after the other, while the
\* cached result ages
SpecRequests == InitRequests /\ [][NextRequests]_vars

----------------------------------------------------------------------------
(* Properties of Part IV *)

\* the venue answered every request with a usable body
Succeeded(name, resp) ==
    CASE name = "Binance" -> resp.binance.ok /\ resp.binance.hasSymbol
      [] name = "Bybit" -> resp.bybit.ok /\ resp.bybit.retCode = 0 /\ resp.bybit.hasTicker
      [] name = "MEXC" -> /\ resp.mexc.ok /\ resp.mexc.success /\ resp.mexc.hasData
                          /\ resp.mexc.detail.kind # "cacheError"

Succeeding(resp) == {v \in SeqRange(Venues) : Succeeded(v, resp)}

\* the venue's last price as it answered, 0 when missing
RawPrice(name, resp) ==
    CASE name = "Binance" -> SafeFloat(resp.binance.price)
      [] name = "Bybit" -> SafeFloat(resp.bybit.lastPrice)
      [] name = "MEXC" -> SafeFloat(resp.mexc.lastPrice)

\* the venue's open interest in 1/10000 USD, from its raw answer
UsdOpenInterest(name, resp) ==
    CASE name = "Binance" -> SafeFloat(resp.binance.openInterest) * RawPrice(name, resp) * Unit
      [] name = "Bybit" -> SafeFloat(resp.bybit.openInterest) * RawPrice(name, resp) * Unit
      [] name = "MEXC" -> SafeFloat(resp.mexc.holdVol) * MexcContractSize(resp.mexc.detail)
                          * RawPrice(name, resp)

RECURSIVE SumOver(_, _, _)
SumOver(S, F(_, _), resp) ==
    IF S = {} THEN 0
    ELSE LET v == CHOOSE x \in S : TRUE IN F(v, resp) + SumOver(S \ {v}, F, resp)

Aggregated == agg.pc \in {"caching", "returned", "threw"}

\* C16: the aggregate over the succeeding venues has totalOpenInterest equal
\* to the sum of their USD open interest (coins x price for Binance and Bybit,
\* holdVol x contractSize x price for MEXC), avgPrice equal to the mean of
\* their prices, and exchanges sorted by open interest, largest first.
C16_AggregateIsSumMeanSorted ==
    (Aggregated /\ ~agg.stats.isNull) =>
        LET S == Succeeding(agg.resp)
            st == agg.stats
        IN /\ st.totalOpenInterest = SumOver(S, UsdOpenInterest, agg.resp)
           /\ st.avgPrice.den = Cardinality(S)
           /\ st.avgPrice.num = SumOver(S, RawPrice, agg.resp)
           /\ \A i \in 1..Len(st.exchanges) : \A j \in 1..Len(st.exchanges) :
                 i < j => st.exchanges[i].openInterest >= st.exchanges[j].openInterest
           /\ \A i \in 1..Len(st.exchanges) :
                 st.exchanges[i].openInterest = UsdOpenInterest(st.exchanges[i].name, agg.resp)

\* Binance 10 coins at 100, Bybit 5 at 100, MEXC 20 contracts of 0.1 at 100:
\* 1700 USD in total, average price 100, order Binance, Bybit, MEXC
C16_Witness ==
    /\ agg.pc = "returned"
    /\ agg.stats.totalOpenInterest = 1700 * Unit
    /\ agg.stats.avgPrice = [num |-> 300, den |-> 3]
    /\ [i \in 1..Len(agg.stats.exchanges) |-> agg.stats.exchanges[i].name]
           = <<"Binance", "Bybit", "MEXC">>
    /\ agg.stats.exchanges[3].openInterest = 200 * Unit

\* C17: the exchanges of the result are exactly the venues that succeeded, the
\* result is null exactly when none did, and nothing but the cache write that
\* follows the aggregation can make the call fail.
C17_VenuesFailIndependently ==
    /\ [](Aggregated =>
            /\ {agg.stats.exchanges[i].name : i \in 1..Len(agg.stats.exchanges)}
                   = Succeeding(agg.resp)
            /\ Len(agg.stats.exchanges) = Cardinality(Succeeding(agg.resp))
            /\ agg.stats.isNull <=> (Succeeding(agg.resp) = {})
            /\ (agg.pc = "threw") => ~agg.stats.isNull)
    /\ [][agg.pc = "fetching" => agg'.pc \in {"fetching", "caching", "returned"}]_vars

\* Binance failed, the call returned the aggregate of Bybit and MEXC
C17_Witness ==
    /\ agg.pc = "returned"
    /\ ~agg.resp.binance.ok
    /\ Len(agg.stats.exchanges) = 2
    /\ agg.stats.totalOpenInterest > 0

----------------------------------------------------------------------------
(* Part V: MarketDataService.checkOIFluctuations *)

MaxScans == 2

\* const THRESHOLD = 2.5
THRESHOLD == [num |-> 5, den |-> 2]

Abs(x) == IF x < 0 THEN -x ELSE x

\* ((stats.totalOpenInterest - lastOI) / lastOI) * 100, as a fraction
DiffPercent(total, lastOI) == [num |-> (total - lastOI) * 100, den |-> lastOI]

\* a test that needs more than the threshold
IsSurge_strict(diff) == Abs(diff.num) * THRESHOLD.den > THRESHOLD.num * Abs(diff.den)

\* Math.abs(diffPercent) >= THRESHOLD
IsSurge(diff) == Abs(diff.num) * THRESHOLD.den >= THRESHOLD.num * Abs(diff.den)

\* the ttlSeconds of redis.set(key, stats.totalOpenInterest, 86400)
SNAPSHOT_TTL == 86400

NoEntry == [present |-> FALSE, v |-> 0, ttl |-> 0]

\* redis.get: data ? JSON.parse(data) : null
RedisGet(entry) ==
    IF entry.present THEN [isNull |-> FALSE, v |-> entry.v] ELSE [isNull |-> TRUE, v |-> 0]

\* if (lastOI): null and 0 are both falsy
Truthy(lastOI) == ~lastOI.isNull /\ lastOI.v # 0

\* a write that happens only when the key is absent
SnapshotWrite_onlyBaseline(entry, total) ==
    IF entry.present THEN entry ELSE [present |-> TRUE, v |-> total, ttl |-> SNAPSHOT_TTL]

\* redis.set(key, stats.totalOpenInterest, 86400)
SnapshotWrite(entry, total) == [present |-> TRUE, v |-> total, ttl |-> SNAPSHOT_TTL]

\* the OISurge pushed for stats against lastOI
Surge(stats, lastOI) ==
    [symbol |-> stats.symbol, previousOI |-> lastOI.v, currentOI |-> stats.totalOpenInterest,
     percentChange |-> DiffPercent(stats.totalOpenInterest, lastOI.v), price |-> stats.avgPrice]

\* the symbols argument: SYMBOLS_TO_TRACK
ScanUniverse == <<BTCUSDT, ETHUSDT>>

ScanBases == {NormalizeSymbol(ScanUniverse[i]) : i \in 1..Len(ScanUniverse)}

\* the for-loop moves to the next symbol, or the call returns its surges
Advance(sc) ==
    IF sc.i + 1 > Len(ScanUniverse) THEN [sc EXCEPT !.pc = "returned"]
    ELSE [sc EXCEPT !.pc = "stats", !.i = sc.i + 1]

\* one symbol's pass through the loop, as it ended
Pass(sc, stats, lastOI, surged) ==
    [scan |-> sc.n, input |-> ScanUniverse[sc.i], symbol |-> stats.symbol,
     hasStats |-> ~stats.isNull, total |-> stats.totalOpenInterest, avgPrice |-> stats.avgPrice,
     had |-> ~lastOI.isNull, last |-> lastOI.v, surged |-> surged]

\* checkOIFluctuations(symbols) is called
StartScan ==
    /\ scan.pc \in {"idle", "returned", "threw"}
    /\ scan.n < MaxScans
    /\ scan' = [scan EXCEPT !.pc = "stats", !.n = scan.n + 1, !.i = 1, !.surges = <<>>,
                             !.routed = 0]
    /\ UNCHANGED <<cache, scanLog>>
    /\ UNCHANGED <<connVars, pipeVars, notScan>>

\* await getAggregatedStats(sym) settles: null (continue), the stats, or a
\* rejection when its redis.set fails
ScanStats(resp, cacheOk) ==
    /\ scan.pc = "stats"
    /\ LET stats == AggregatedStats(ScanUniverse[scan.i],
                                    [v \in SeqRange(Venues) |-> Fetch(v, resp)])
       IN IF stats.isNull
          THEN /\ scan' = Advance(scan)
               /\ scanLog' = Append(scanLog, Pass(scan, stats, RedisGet(NoEntry), FALSE))
          ELSE /\ scan' = IF cacheOk THEN [scan EXCEPT !.pc = "get", !.stats = stats]
                          ELSE [scan EXCEPT !.pc = "threw"]
               /\ UNCHANGED scanLog
    /\ UNCHANGED cache
    /\ UNCHANGED <<connVars, pipeVars, notScan>>

\* await this.redis.get(key) settles
ScanGet(ok) ==
    /\ scan.pc = "get"
    /\ scan' = IF ok THEN [scan EXCEPT !.pc = "set", !.lastOI = RedisGet(cache[scan.stats.symbol])]
               ELSE [scan EXCEPT !.pc = "threw"]
    /\ UNCHANGED <<cache, scanLog>>
    /\ UNCHANGED <<connVars, pipeVars, notScan>>

\* await this.redis.set(key, total, 86400) settles, then the comparison with
\* lastOI runs and the loop moves on
ScanSet(ok) ==
    /\ scan.pc = "set"
    /\ IF ok
       THEN LET stats == scan.stats
                lastOI == scan.lastOI
                surged == Truthy(lastOI)
                          /\ IsSurge(DiffPercent(stats.totalOpenInterest, lastOI.v))
                sc == IF surged THEN [scan EXCEPT !.surges = Append(@, Surge(stats, lastOI))]
                      ELSE scan
            IN /\ cache' = [cache EXCEPT ![stats.symbol] =
                                SnapshotWrite(cache[stats.symbol], stats.totalOpenInterest)]
               /\ scan' = Advance(sc)
               /\ scanLog' = Append(scanLog, Pass(scan, stats, lastOI, surged))
       ELSE /\ scan' = [scan EXCEPT !.pc = "threw"]
            /\ UNCHANGED <<cache, scanLog>>
    /\ UNCHANGED <<connVars, pipeVars, notScan>>

\* the 24 h TTL of a snapshot runs out
Expire(base) ==
    /\ cache[base].present
    /\ cache' = [cache EXCEPT ![base] = NoEntry]
    /\ UNCHANGED <<scan, scanLog>>
    /\ UNCHANGED <<connVars, pipeVars, notScan>>

\* venue answers giving no stats and totals of 0, 975, 1000 and 1025 USD
ScanResponses ==
    {[binance |-> b,
      bybit |-> [ok |-> FALSE, retCode |-> 0, hasTicker |-> FALSE, lastPrice |-> Missing,
                 openInterest |-> Missing],
      mexc |-> [ok |-> FALSE, success |-> FALSE, hasData |-> FALSE, lastPrice |-> Missing,
                holdVol |-> Missing, detail |-> [kind |-> "ok", size |-> 1000]]] :
        b \in {[ok |-> FALSE, hasSymbol |-> FALSE, price |-> Missing, openInterest |-> Missing]}
              \cup {[ok |-> TRUE, hasSymbol |-> TRUE, price |-> Text(NumText(1)),
                     openInterest |-> Text(NumText(n))] : n \in {0, 975, 1000, 1025}}}

IdleScan ==
    [pc |-> "idle", n |-> 0, i |-> 0, stats |-> AggregatedStats(BTCUSDT, [v \in SeqRange(Venues) |-> Null]),
     lastOI |-> RedisGet(NoEntry), surges |-> <<>>, routed |-> 0]

InitScan ==
    /\ OneOpenSocket
    /\ IdlePipeline
    /\ muting = <<>> /\ agg = [pc |-> "idle"]
    /\ calls = <<>> /\ clock = 0 /\ jobs = <<>>
    /\ cascade = <<>> /\ userStates = {}
    /\ cache = [b \in ScanBases |-> NoEntry]
    /\ scan = IdleScan
    /\ scanLog = <<>>

NextScan ==
    \/ StartScan
    \/ \E resp \in ScanResponses : \E cacheOk \in BOOLEAN : ScanStats(resp, cacheOk)
    \/ \E ok \in BOOLEAN : ScanGet(ok)
    \/ \E ok \in BOOLEAN : ScanSet(ok)
    \/ \E base \in ScanBases : Expire(base)

\* the OI scans, one after the other, against the snapshot cache
SpecScan == InitScan /\ [][NextScan]_vars

\* the 15-minute monitor hands the next surge of the returned scan to
\* sendOISurgeAlert
RouteSurge ==
    /\ scan.pc = "returned"
    /\ scan.routed < Len(scan.surges)
    /\ Len(tasks) < MaxAlerts
    /\ LET pc == OIAlertStart
       IN /\ tasks' = Append(tasks, AlertTask("oi", scan.surges[scan.routed + 1], NaN, pc))
          /\ sendLog' = sendLog \o ChannelSends(Len(tasks) + 1, pc)
    /\ scan' = [scan EXCEPT !.routed = @ + 1]
    /\ UNCHANGED <<cache, scanLog>>
    /\ UNCHANGED <<channelOn, received, users, liquidations>>
    /\ UNCHANGED <<connVars, notScan>>

\* two subscribers tracking BTCUSDT, one of them also ETHUSDT; a snapshot of
\* 1000 USD is in the cache for both symbols
InitSurge ==
    /\ OneOpenSocket
    /\ muting = <<>> /\ agg = [pc |-> "idle"]
    /\ calls = <<>> /\ clock = 0 /\ jobs = <<>>
    /\ cascade = <<>> /\ userStates = {}
    /\ cache = [b \in ScanBases |-> [present |-> TRUE, v |-> 1000 * Unit, ttl |-> SNAPSHOT_TTL]]
    /\ scan = IdleScan
    /\ scanLog = <<>>
    /\ channelOn \in BOOLEAN
    /\ users = <<Row(1, {BTCUSDT, ETHUSDT}, TRUE, 50000), Row(2, {BTCUSDT}, TRUE, 200000)>>
    /\ received = <<>>
    /\ tasks = <<>>
    /\ liquidations = <<>>
    /\ sendLog = <<>>

\* findUsersTrackingSymbol is asked for the normalised base, which no stored
\* trackedSymbols entry equals, so the loop over its result has no iteration
NextSurge ==
    \/ NextScan
    \/ RouteSurge
    \/ \E t \in 1..Len(tasks) : \E outcome \in {"ok", "blocked", "error"} : ChannelSendCompletes(t, outcome)
    \/ \E t \in 1..Len(tasks) : \E ok \in BOOLEAN : QueryCompletes(t, ok)

\* the OI monitor: scans over SYMBOLS_TO_TRACK and the alerts for their surges
SpecSurge == InitSurge /\ [][NextSurge]_vars

----------------------------------------------------------------------------
(* Properties of Part V *)

\* |(total - last) / last x 100| >= 2.5 in exact arithmetic, last # 0:
\* the change is at least one fortieth of the snapshot
PercentAtLeastThreshold(total, last) == Abs(total - last) * 40 >= Abs(last)

\* the same comparison as JavaScript evaluates it when last may be 0:
\* x / 0 is Infinity for x # 0, and 0 / 0 is NaN, which compares false
PercentAtLeastThresholdJS(total, last) ==
    IF last = 0 THEN total # 0 ELSE PercentAtLeastThreshold(total, last)

\* the passes of scan n that pushed a surge, in loop order
SurgedPasses(n) ==
    LET Test(p) == p.scan = n /\ p.surged IN SelectSeq(scanLog, Test)

\* the surges a returned scan hands back are those of its surged passes,
\* each with previousOI, currentOI, the signed percentChange and avgPrice
ReturnedSurgesMatchPasses ==
    scan.pc = "returned" =>
        LET ps == SurgedPasses(scan.n) IN
        /\ Len(scan.surges) = Len(ps)
        /\ \A k \in 1..Len(ps) :
              LET g == scan.surges[k] IN
              /\ g.symbol = ps[k].symbol
              /\ g.previousOI = ps[k].last
              /\ g.currentOI = ps[k].total
              /\ g.percentChange.den = ps[k].last
              /\ g.percentChange.num = (ps[k].total - ps[k].last) * 100
              /\ g.price = ps[k].avgPrice

\* C14 as stated: a pass pushes a surge exactly when stats are available, a
\* prior snapshot exists and |(currentOI - previousOI) / previousOI x 100| >= 2.5.
C14_SurgeIffSnapshotAndThreshold ==
    /\ \A k \in 1..Len(scanLog) :
          LET p == scanLog[k] IN
          p.surged <=> (p.hasStats /\ p.had /\ PercentAtLeastThresholdJS(p.total, p.last))
    /\ ReturnedSurgesMatchPasses

\* C14, amended: a pass pushes a surge exactly when stats are available, a
\* prior snapshot exists and is not 0, and the change against it is at least
\* 2.5 percent in absolute value; the surge carries previousOI, currentOI, the
\* signed percentChange and avgPrice; no prior snapshot means no surge.
C14_SurgeIffNonZeroSnapshotAndThreshold ==
    /\ \A k \in 1..Len(scanLog) :
          LET p == scanLog[k] IN
          /\ p.surged <=> (/\ p.hasStats /\ p.had /\ p.last # 0
                           /\ PercentAtLeastThreshold(p.total, p.last))
          /\ ~p.had => ~p.surged
    /\ ReturnedSurgesMatchPasses

\* a returned scan with the surge 1000 -> 1025 USD (exactly 2.5 percent) on
\* BTC and, for ETH, a snapshot of 0 followed by 1000 USD without a surge
C14_Witness ==
    /\ scan.pc = "returned"
    /\ Len(scan.surges) = 1
    /\ scan.surges[1].symbol = NormalizeSymbol(BTCUSDT)
    /\ scan.surges[1].previousOI = 1000 * Unit
    /\ scan.surges[1].currentOI = 1025 * Unit
    /\ \E k \in 1..Len(scanLog) :
          /\ scanLog[k].scan = scan.n
          /\ scanLog[k].had /\ scanLog[k].last = 0 /\ scanLog[k].total = 1000 * Unit
          /\ ~scanLog[k].surged

\* pass m is the first pass over its symbol after pass k
NextPassOfSymbol(k, m) ==
    /\ k < m
    /\ scanLog[k].input = scanLog[m].input
    /\ \A j \in (k + 1)..(m - 1) : scanLog[j].input # scanLog[m].input

\* C15: a pass without a prior snapshot pushes no surge, every pass with
\* stats leaves the snapshot equal to the current total, and a pass that
\* follows a pass of the same symbol with the same total pushes no surge.
C15_BaselineAndRepeatAreSilent ==
    /\ [](\A m \in 1..Len(scanLog) :
             /\ (scanLog[m].hasStats /\ ~scanLog[m].had) => ~scanLog[m].surged
             /\ \A k \in 1..Len(scanLog) :
                   (/\ NextPassOfSymbol(k, m)
                    /\ scanLog[k].hasStats /\ scanLog[m].hasStats
                    /\ scanLog[k].total = scanLog[m].total) => ~scanLog[m].surged)
    /\ [][(Len(scanLog') = Len(scanLog) + 1 /\ scanLog'[Len(scanLog')].hasStats) =>
             cache'[scanLog'[Len(scanLog')].symbol]
                 = [present |-> TRUE, v |-> scanLog'[Len(scanLog')].total, ttl |-> SNAPSHOT_TTL]]_vars

\* BTC without a snapshot at 1000 USD, then again at 1000 USD: no surge in
\* either pass and the snapshot is 1000 USD
C15_Witness ==
    \E k \in 1..Len(scanLog) : \E m \in 1..Len(scanLog) :
        /\ NextPassOfSymbol(k, m)
        /\ scanLog[k].hasStats /\ ~scanLog[k].had /\ ~scanLog[k].surged
        /\ scanLog[k].total = 1000 * Unit
        /\ scanLog[m].hasStats /\ scanLog[m].had /\ scanLog[m].total = 1000 * Unit
        /\ ~scanLog[m].surged
        /\ cache[scanLog[m].symbol] = [present |-> TRUE, v |-> 1000 * Unit, ttl |-> SNAPSHOT_TTL]

\* C12: when the alert for a surge of the scan has run to its end, it has been
\* sent to the channel if one is configured and to every subscriber who had
\* notifications enabled and tracked the symbol the surge was found for.
C12_SurgeReachesChannelAndTrackers ==
    \A t \in 1..Len(tasks) :
        (tasks[t].kind = "oi" /\ tasks[t].pc = "done") =>
            /\ channelOn => SendsTo(t, CHANNEL) = 1
            /\ \A k \in 1..Len(tasks[t].atQuery) :
                  LET row == tasks[t].atQuery[k] IN
                  (/\ row.notificationsEnabled
                   /\ \E sym \in row.trackedSymbols :
                         /\ sym \in SeqRange(ScanUniverse)
                         /\ NormalizeSymbol(sym) = tasks[t].liq.symbol)
                  => SendsTo(t, row.chatId) = 1

----------------------------------------------------------------------------
(* Part VI: the cron jobs of ReportingService and the retention delete *)

\* bound on the hours the clock advances
MaxTicks == 2

\* the hour before midnight of day 3 -> 4
StartHour == 71

\* Date.getHours() and Date.setHours(v) in the zone of the process; the image
\* (node:20-slim, no TZ) runs in UTC, where setHours rolls over whole days
GetHours(date) == date % 24

SetHours(date, v) == (date \div 24) * 24 + v

\* fortyEightHoursAgo.setHours(fortyEightHoursAgo.getHours() - 48)
FortyEightHoursAgo(now) == SetHours(now, GetHours(now) - 48)

\* the order of strings, character by character ($lt on two strings)
RECURSIVE StringLess(_, _)
StringLess(a, b) ==
    IF Len(b) = 0 THEN FALSE
    ELSE IF Len(a) = 0 THEN TRUE
    ELSE IF a[1] # b[1] THEN a[1] < b[1]
    ELSE StringLess(Tail(a), Tail(b))

\* a filter that also takes the events at the instant itself
OlderThan_inclusive(time, olderThan) ==
    time.iso = ToISOString(olderThan).iso \/ StringLess(time.iso, ToISOString(olderThan).iso)

\* { time: { $lt: olderThan.toISOString() } }
OlderThan(time, olderThan) == StringLess(time.iso, ToISOString(olderThan).iso)

\* what deleteMany leaves in the collection
DeleteMany(stored, olderThan) ==
    SelectSeq(stored, LAMBDA e : ~OlderThan(e.doc.time, olderThan))

\* getActiveUsers: { notificationsEnabled: true, trackedSymbols non-empty }
GetActiveUsers(rows) ==
    SelectSeq(rows, LAMBDA row : row.notificationsEnabled /\ row.trackedSymbols # {})

\* currentHour % user.reportIntervalHours === 0: the remainder by 0 or by NaN
\* is NaN, and the remainder by -n is that by n (currentHour is never negative)
Due(row, currentHour) ==
    LET n == row.reportIntervalHours IN
    /\ ~n.nan /\ n.v # 0
    /\ currentHour % (IF n.v < 0 THEN -n.v ELSE n.v) = 0

\* a run of one of the two jobs
Run(job, tick, pc, olderThan) ==
    [job |-> job, tick |-> tick, pc |-> pc, olderThan |-> olderThan,
     before |-> <<>>, deletedCount |-> 0, ok |-> FALSE,
     active |-> <<>>, currentHour |-> 0, i |-> 0, sent |-> <<>>, newStatus |-> FALSE]

\* the for loop of generateAndSendScheduledReports from index i on: the next
\* user whose report is due is being generated, or the run is over
RECURSIVE ReportLoop(_, _)
ReportLoop(run, i) ==
    IF i > Len(run.active) THEN [run EXCEPT !.pc = "done", !.i = i]
    ELSE IF Due(run.active[i], run.currentHour)
         THEN [run EXCEPT !.pc = "generate", !.i = i]
         ELSE ReportLoop(run, i + 1)

Finished(run) == run.pc \in {"done", "rejected"}

\* the clock reaches the next full hour: the hourly callback calls
\* generateAndSendScheduledReports(), and at 00:00 the daily callback calls
\* cleanupOldData(); neither callback waits for the promise nor looks at
\* earlier runs
CronTick ==
    /\ clock < StartHour + MaxTicks
    /\ clock' = clock + 1
    /\ jobs' = jobs \o <<Run("report", clock + 1, "users", [valid |-> TRUE, ms |-> 0])>>
                    \o (IF GetHours(clock + 1) = 0
                        THEN <<Run("cleanup", clock + 1, "delete",
                                   [valid |-> TRUE, ms |-> FortyEightHoursAgo(clock + 1)])>>
                        ELSE <<>>)
    /\ UNCHANGED <<connVars, pipeVars, notCron>>

\* deleteOldLiquidations: deleteMany settles; a failure is logged and the
\* function returns 0
DeleteCompletes(r, ok) ==
    /\ jobs[r].job = "cleanup" /\ jobs[r].pc = "delete"
    /\ LET kept == IF ok THEN DeleteMany(liquidations, jobs[r].olderThan) ELSE liquidations
       IN /\ liquidations' = kept
          /\ jobs' = [jobs EXCEPT ![r].pc = "done", ![r].ok = ok,
                                  ![r].before = liquidations,
                                  ![r].deletedCount = Len(liquidations) - Len(kept)]
    /\ UNCHANGED <<channelOn, received, tasks, users, sendLog, clock>>
    /\ UNCHANGED <<connVars, notCron>>

\* generateAndSendScheduledReports: getActiveUsers settles; the hour is read
\* after it
ActiveUsersComplete(r, ok) ==
    /\ jobs[r].job = "report" /\ jobs[r].pc = "users"
    /\ jobs' = [jobs EXCEPT ![r] =
                   IF ok
                   THEN ReportLoop([jobs[r] EXCEPT !.active = GetActiveUsers(users),
                                                   !.currentHour = GetHours(clock)], 1)
                   ELSE [jobs[r] EXCEPT !.pc = "rejected"]]
    /\ UNCHANGED <<pipeVars, clock>>
    /\ UNCHANGED <<connVars, notCron>>

\* generateReportForUser settles: a message (the report, or the "No
\* liquidations recorded" text; the null of its last test needs a symbol in
\* currentStats with neither side above 0, which getStatsForPeriod never
\* stores), or a rejection of its queries
GenerateCompletes(r, outcome) ==
    /\ jobs[r].job = "report" /\ jobs[r].pc = "generate"
    /\ jobs' = [jobs EXCEPT ![r] =
                   IF outcome = "message"
                   THEN [jobs[r] EXCEPT !.pc = "send",
                                        !.sent = Append(@, jobs[r].active[jobs[r].i].chatId)]
                   ELSE [jobs[r] EXCEPT !.pc = "rejected"]]
    /\ UNCHANGED <<pipeVars, clock>>
    /\ UNCHANGED <<connVars, notCron>>

\* sendMessage: bot.sendMessage settles; a 403 goes on to toggleUserNotifications
ReportSendCompletes(r, outcome) ==
    /\ jobs[r].job = "report" /\ jobs[r].pc = "send"
    /\ jobs' = [jobs EXCEPT ![r] =
                   IF outcome = "blocked"
                   THEN [jobs[r] EXCEPT !.pc = "toggleRead"]
                   ELSE ReportLoop(jobs[r], jobs[r].i + 1)]
    /\ UNCHANGED <<pipeVars, clock>>
    /\ UNCHANGED <<connVars, notCron>>

\* toggleUserNotifications: getUser settles
ReportToggleRead(r, ok) ==
    /\ jobs[r].job = "report" /\ jobs[r].pc = "toggleRead"
    /\ LET k == RowOf(users, jobs[r].active[jobs[r].i].chatId) IN
       jobs' = [jobs EXCEPT ![r] =
                   IF ~ok THEN [jobs[r] EXCEPT !.pc = "rejected"]
                   ELSE IF k = 0 THEN ReportLoop(jobs[r], jobs[r].i + 1)
                   ELSE [jobs[r] EXCEPT !.pc = "toggleWrite",
                                        !.newStatus = NewStatus(users[k].notificationsEnabled, FALSE)]]
    /\ UNCHANGED <<pipeVars, clock>>
    /\ UNCHANGED <<connVars, notCron>>

\* toggleUserNotifications: updateOne settles
ReportToggleWrite(r, ok) ==
    /\ jobs[r].job = "report" /\ jobs[r].pc = "toggleWrite"
    /\ LET k == RowOf(users, jobs[r].active[jobs[r].i].chatId) IN
       IF ok
       THEN /\ users' = IF k = 0 THEN users
                        ELSE [users EXCEPT ![k].notificationsEnabled = jobs[r].newStatus]
            /\ jobs' = [jobs EXCEPT ![r] = ReportLoop(jobs[r], jobs[r].i + 1)]
       ELSE /\ jobs' = [jobs EXCEPT ![r].pc = "rejected"]
            /\ UNCHANGED users
    /\ UNCHANGED <<channelOn, received, tasks, liquidations, sendLog, clock>>
    /\ UNCHANGED <<connVars, notCron>>

\* a stored event of the given hour
StoredAt(h) ==
    [id |-> 0, doc |-> Liquidation(Order("BUY", Chars(50000), Chars(2), [valid |-> TRUE, ms |-> h]))]

\* the hours of the stored events: around the cut of the first cleanup
\* (day 2, 00:00), on both sides of a change of the day's tens digit, and recent
StoredHours == {23, 24, 25, 215, 216}

MaxStored == 2

StoredScenarios ==
    UNION {[1..n -> {StoredAt(h) : h \in StoredHours}] : n \in 0..MaxStored}

\* subscribers with their report intervals
ReportingUsers ==
    <<Row(1, {BTCUSDT}, TRUE, 50000) @@ [reportIntervalHours |-> Num(1)],
      Row(2, {BTCUSDT}, TRUE, 50000) @@ [reportIntervalHours |-> Num(4)]>>

InitCron ==
    /\ OneOpenSocket
    /\ muting = <<>> /\ agg = [pc |-> "idle"]
    /\ cache = <<>> /\ scan = [pc |-> "idle"] /\ scanLog = <<>>
    /\ calls = <<>>
    /\ cascade = <<>> /\ userStates = {}
    /\ clock = StartHour
    /\ jobs = <<>>
    /\ channelOn = FALSE
    /\ users = ReportingUsers
    /\ received = <<>>
    /\ tasks = <<>>
    /\ liquidations \in StoredScenarios
    /\ sendLog = <<>>

NextCron ==
    \/ CronTick
    \/ \E r \in 1..Len(jobs) : \E ok \in BOOLEAN : DeleteCompletes(r, ok)
    \/ \E r \in 1..Len(jobs) : \E ok \in BOOLEAN : ActiveUsersComplete(r, ok)
    \/ \E r \in 1..Len(jobs) : \E outcome \in {"message", "error"} : GenerateCompletes(r, outcome)
    \/ \E r \in 1..Len(jobs) : \E outcome \in {"ok", "blocked", "error"} : ReportSendCompletes(r, outcome)
    \/ \E r \in 1..Len(jobs) : \E ok \in BOOLEAN : ReportToggleRead(r, ok)
    \/ \E r \in 1..Len(jobs) : \E ok \in BOOLEAN : ReportToggleWrite(r, ok)

\* ReportingService after start(): the two scheduled jobs
SpecCron == InitCron /\ [][NextCron]_vars

\* the retention job alone: the ticks of the clock and the delete of
\* cleanupOldData (the report runs the ticks start are left at their first await)
NextRetain ==
    \/ CronTick
    \/ \E r \in 1..Len(jobs) : \E ok \in BOOLEAN : DeleteCompletes(r, ok)

SpecRetain == InitCron /\ [][NextRetain]_vars

----------------------------------------------------------------------------
(* Properties of Part VI *)

\* the instant a stored time text stands for, in hours
HourOf(time) ==
    ((time.iso[1] * 10 + time.iso[2]) - 1) * 24 + time.iso[3] * 10 + time.iso[4]

\* run r of the cleanup returns in this step with the delete done
CleanupReturns(r) ==
    /\ r \in 1..Len(jobs)
    /\ jobs[r].job = "cleanup" /\ jobs[r].pc = "delete"
    /\ jobs'[r].pc = "done" /\ jobs'[r].ok

\* C18: when the retention delete returns after a successful deleteMany, no
\* stored event is older than its instant T, the events at or after T are all
\* still stored, unchanged and in their order, and the count returned is the
\* number of events removed; the daily job runs at 00:00 with T = now - 48 h.
C18_RetentionDelete ==
    [][\A r \in 1..Len(jobs) :
          CleanupReturns(r) =>
             LET T == jobs[r].tick - 48 IN
             /\ GetHours(jobs[r].tick) = 0
             /\ jobs[r].olderThan.ms = T
             /\ \A k \in 1..Len(liquidations') : HourOf(liquidations'[k].doc.time) >= T
             /\ liquidations' = SelectSeq(liquidations, LAMBDA e : HourOf(e.doc.time) >= T)
             /\ jobs'[r].deletedCount = Len(liquidations) - Len(liquidations')]_vars

\* a cleanup has returned 1 after removing one event and keeping one that is
\* exactly 48 h old
C18_Witness ==
    \E r \in 1..Len(jobs) :
        /\ jobs[r].job = "cleanup" /\ jobs[r].pc = "done" /\ jobs[r].ok
        /\ jobs[r].deletedCount = 1
        /\ Len(jobs[r].before) = 2
        /\ liquidations = <<StoredAt(jobs[r].tick - 48)>>

\* C20: at most one run of each scheduled job is in progress at any time.
C20_AtMostOneRunPerJob ==
    \A job \in {"report", "cleanup"} :
        Cardinality({r \in 1..Len(jobs) : jobs[r].job = job /\ ~Finished(jobs[r])}) <= 1

----------------------------------------------------------------------------
(* Part VII: findOrCreateUser *)

\* bound on the calls of findOrCreateUser
MaxCalls == 3

\* the unique index on chatId is missing
DuplicateKey_noIndex(rows, chatId) == FALSE

\* createIndex({ chatId: 1 }, { unique: true }): an insert of a chatId that is
\* stored already fails with code 11000
DuplicateKey(rows, chatId) == RowOf(rows, chatId) # 0

\* const newUser: User = {...}
NewUser(chatId, firstName, now) ==
    Row(chatId, {}, TRUE, 10000)
        @@ [firstName |-> firstName, reportIntervalHours |-> Num(4), createdAt |-> now]

\* what findOne({ chatId }) resolves to
FindOne(rows, chatId) ==
    IF RowOf(rows, chatId) = 0 THEN [isNull |-> TRUE]
    ELSE [isNull |-> FALSE, row |-> rows[RowOf(rows, chatId)]]

\* findOrCreateUser(chatId, firstName) is called (handleStart)
FindOrCreateUser(chatId, firstName) ==
    /\ Len(calls) < MaxCalls
    /\ calls' = Append(calls, [chatId |-> chatId, firstName |-> firstName, pc |-> "findOne",
                               newUser |-> NewUser(chatId, firstName, clock),
                               warned |-> FALSE, result |-> [isNull |-> TRUE]])
    /\ UNCHANGED <<connVars, pipeVars, notCalls>>

\* the first findOne settles: an existing row is returned, else the insert is issued
FindOneCompletes(c, ok) ==
    /\ calls[c].pc = "findOne"
    /\ LET existingUser == FindOne(users, calls[c].chatId) IN
       calls' = [calls EXCEPT ![c] =
                    IF ~ok THEN [@ EXCEPT !.pc = "thrown"]
                    ELSE IF ~existingUser.isNull
                         THEN [@ EXCEPT !.pc = "returned", !.result = existingUser]
                         ELSE [@ EXCEPT !.pc = "insertOne"]]
    /\ UNCHANGED <<connVars, pipeVars, notCalls>>

\* insertOne settles: stored and newUser returned; or duplicate key, which is
\* logged as a race and the row is read again; or another error, which is thrown
InsertOneCompletes(c, ok) ==
    /\ calls[c].pc = "insertOne"
    /\ IF ~ok
       THEN /\ calls' = [calls EXCEPT ![c].pc = "thrown"]
            /\ UNCHANGED users
       ELSE IF DuplicateKey(users, calls[c].chatId)
       THEN /\ calls' = [calls EXCEPT ![c].pc = "reread", ![c].warned = TRUE]
            /\ UNCHANGED users
       ELSE /\ users' = Append(users, calls[c].newUser)
            /\ calls' = [calls EXCEPT ![c].pc = "returned",
                                      ![c].result = [isNull |-> FALSE, row |-> calls[c].newUser]]
    /\ UNCHANGED <<channelOn, received, tasks, liquidations, sendLog>>
    /\ UNCHANGED <<connVars, notCalls>>

\* the findOne of the catch block settles
RereadCompletes(c, ok) ==
    /\ calls[c].pc = "reread"
    /\ calls' = [calls EXCEPT ![c] =
                    IF ok THEN [@ EXCEPT !.pc = "returned", !.result = FindOne(users, calls[c].chatId)]
                    ELSE [@ EXCEPT !.pc = "thrown"]]
    /\ UNCHANGED <<connVars, pipeVars, notCalls>>

\* the first names the callers give
FirstNames == {"Ann", "Bob"}

\* an empty collection, or one where chatId 1 is stored, muted and tracking BTCUSDT
StoredUsers ==
    {<<>>,
     <<Row(1, {BTCUSDT}, FALSE, 50000)
           @@ [firstName |-> "Ann", reportIntervalHours |-> Num(1), createdAt |-> 0]>>}

InitCreate ==
    /\ OneOpenSocket
    /\ IdleServices
    /\ channelOn = FALSE
    /\ users \in StoredUsers
    /\ received = <<>>
    /\ tasks = <<>>
    /\ liquidations = <<>>
    /\ sendLog = <<>>

NextCreate ==
    \/ \E chatId \in ChatIds : \E firstName \in FirstNames : FindOrCreateUser(chatId, firstName)
    \/ \E c \in 1..Len(calls) : \E ok \in BOOLEAN : FindOneCompletes(c, ok)
    \/ \E c \in 1..Len(calls) : \E ok \in BOOLEAN : InsertOneCompletes(c, ok)
    \/ \E c \in 1..Len(calls) : \E ok \in BOOLEAN : RereadCompletes(c, ok)
    \/ MuteRead(1)
    \/ MuteWrite

\* concurrent /start handlers, and menu:mute callbacks of chatId 1
SpecCreate == InitCreate /\ [][NextCreate]_vars

----------------------------------------------------------------------------
(* Properties of Part VII *)

RowsOf(rows, chatId) == {k \in 1..Len(rows) : rows[k].chatId = chatId}

\* call c returns in this step
Returns(c) == c \in 1..Len(calls) /\ calls[c].pc # "returned" /\ calls'[c].pc = "returned"

\* C19: whatever the interleaving of the calls, a chatId never has two rows
\* and has one once a call for it has returned; a row is created with the
\* defaults; no step of findOrCreateUser changes a stored row; and a call
\* returns the row stored for its chatId.
C19_FindOrCreateIdempotent ==
    /\ [](\A chatId \in ChatIds :
             /\ Cardinality(RowsOf(users, chatId)) <= 1
             /\ (\E c \in 1..Len(calls) : calls[c].chatId = chatId /\ calls[c].pc = "returned")
                   => Cardinality(RowsOf(users, chatId)) = 1)
    /\ [][calls' # calls =>
             /\ \A k \in 1..Len(users) : k <= Len(users') /\ users'[k] = users[k]
             /\ \A k \in (Len(users) + 1)..Len(users') :
                   /\ users'[k].trackedSymbols = {}
                   /\ users'[k].notificationsEnabled = TRUE
                   /\ users'[k].reportIntervalHours = Num(4)
                   /\ users'[k].minLiquidationAlert = 10000
             /\ \A c \in 1..Len(calls) :
                   Returns(c) =>
                      /\ ~calls'[c].result.isNull
                      /\ calls'[c].result.row = users'[RowOf(users', calls[c].chatId)]]_vars

\* two calls for chatId 2 raced: both found no row, Ann's insert won, Bob's
\* hit the duplicate key, and both returned Ann's row
C19_Witness ==
    \E c, d \in 1..Len(calls) :
        /\ c # d
        /\ calls[c].chatId = 2 /\ calls[d].chatId = 2
        /\ calls[c].firstName = "Ann" /\ calls[d].firstName = "Bob"
        /\ calls[c].pc = "returned" /\ calls[d].pc = "returned"
        /\ ~calls[c].warned /\ calls[d].warned
        /\ calls[c].result.row.firstName = "Ann"
        /\ calls[d].result.row.firstName = "Ann"
        /\ Cardinality(RowsOf(users, 2)) = 1
        /\ \E e \in 1..Len(calls) : calls[e].chatId = 1 /\ calls[e].pc = "returned"

\* the subscribers of a run's getActiveUsers answer whose report is due at
\* the hour of the run's tick
DueAtTick(run) ==
    {run.active[k].chatId : k \in {j \in 1..Len(run.active) : Due(run.active[j], GetHours(run.tick))}}

\* C21: when the report run of a tick is over, a scheduled report has been
\* sent to exactly the active subscribers whose interval divides the hour of
\* the tick, once each.
C21_ReportSentToDueSubscribers ==
    \A r \in 1..Len(jobs) :
        (jobs[r].job = "report" /\ Finished(jobs[r]) /\ Len(jobs[r].active) > 0) =>
            /\ SeqRange(jobs[r].sent) = DueAtTick(jobs[r])
            /\ Len(jobs[r].sent) = Cardinality(DueAtTick(jobs[r]))

----------------------------------------------------------------------------
(* Part VIII: the cascade detector in front of sendCascadeAlert *)

\* bounds on the events ingested and on the 5 s steps of the detector's clock
MaxIngest == 4

MaxSteps == 3

StepSeconds == 5

CASCADE_WINDOW == 10

CASCADE_MIN_COUNT == 3

CASCADE_MIN_VOLUME == 100000

\* the (symbol, side) keys of the bucket map
CascadeKeys == {<<BTCUSDT, "long">>, <<BTCUSDT, "short">>}

NoBucket == [count |-> 0]

\* a bucket seeded with one event
SeedBucket(key, price, notional, now) ==
    [count |-> 1, totalVolume |-> notional, minPrice |-> price, maxPrice |-> price,
     side |-> key[2], startTime |-> now]

\* count += 1, totalVolume += notional, minPrice = min, maxPrice = max
UpdateBucket(b, price, notional) ==
    [b EXCEPT !.count = @ + 1, !.totalVolume = @ + notional,
              !.minPrice = IF price < @ THEN price ELSE @,
              !.maxPrice = IF price > @ THEN price ELSE @]

\* now - startTime >= 10 seconds
Eligible(b, now) == b.count > 0 /\ now - b.startTime >= CASCADE_WINDOW

\* an alert for every flushed bucket that is large enough, whatever its count
MeetsThresholds_volumeOnly(b) == b.totalVolume >= CASCADE_MIN_VOLUME

\* count >= 3 AND totalVolume >= 100 000
MeetsThresholds(b) == b.count >= CASCADE_MIN_COUNT /\ b.totalVolume >= CASCADE_MIN_VOLUME

\* the bucket of the key leaves the map; it is handed to sendCascadeAlert when
\* it meets the thresholds
Flushed(c, key) ==
    [c EXCEPT !.buckets[key] = NoBucket,
              !.gen[key] = @ + 1,
              !.flushed = Append(@, [key |-> key, gen |-> c.gen[key], bucket |-> c.buckets[key],
                                     alerted |-> MeetsThresholds(c.buckets[key])])]

\* the calls of sendCascadeAlert a flush of the key makes
FlushAlerts(c, key) ==
    IF MeetsThresholds(c.buckets[key])
    THEN <<AlertTask("cascade", [symbol |-> key[1], buffer |-> c.buckets[key]],
                     Num(c.buckets[key].totalVolume), "stats")>>
    ELSE <<>>

\* every event seeds a bucket, replacing the one that is open
Admitted_reseeds(c, key, price, quantity) ==
    [c EXCEPT !.buckets[key] = SeedBucket(key, price, price * quantity, c.now),
              !.admitted = Append(@, [key |-> key, price |-> price,
                                      notional |-> price * quantity, gen |-> c.gen[key]])]

\* the event joins the bucket of its key, or seeds one
Admitted(c, key, price, quantity) ==
    [c EXCEPT !.buckets[key] = IF @.count = 0
                               THEN SeedBucket(key, price, price * quantity, c.now)
                               ELSE UpdateBucket(@, price, price * quantity),
              !.admitted = Append(@, [key |-> key, price |-> price,
                                      notional |-> price * quantity, gen |-> c.gen[key]])]

\* ingest of one event; a bucket of its key whose window is over is flushed first
CascadeIngest(key, price, quantity) ==
    /\ Len(cascade.admitted) < MaxIngest
    /\ IF Eligible(cascade.buckets[key], cascade.now)
       THEN /\ cascade' = Admitted(Flushed(cascade, key), key, price, quantity)
            /\ tasks' = tasks \o FlushAlerts(cascade, key)
       ELSE /\ cascade' = Admitted(cascade, key, price, quantity)
            /\ UNCHANGED tasks
    /\ UNCHANGED <<channelOn, received, users, liquidations, sendLog>>
    /\ UNCHANGED <<connVars, notCascade>>

\* the periodic sweep finds the bucket of the key eligible
CascadeFlush(key) ==
    /\ Eligible(cascade.buckets[key], cascade.now)
    /\ cascade' = Flushed(cascade, key)
    /\ tasks' = tasks \o FlushAlerts(cascade, key)
    /\ UNCHANGED <<channelOn, received, users, liquidations, sendLog>>
    /\ UNCHANGED <<connVars, notCascade>>

\* time passes
CascadeClock ==
    /\ cascade.now < MaxSteps * StepSeconds
    /\ cascade' = [cascade EXCEPT !.now = @ + StepSeconds]
    /\ UNCHANGED <<connVars, pipeVars, notCascade>>

\* the events ingested: notionals of 10 000, 30 000 and 60 000 USD
CascadeEvents ==
    {[price |-> 10000, quantity |-> 1], [price |-> 10000, quantity |-> 3],
     [price |-> 20000, quantity |-> 3]}

InitCascade ==
    /\ OneOpenSocket
    /\ muting = <<>> /\ agg = [pc |-> "idle"]
    /\ cache = <<>> /\ scan = [pc |-> "idle"] /\ scanLog = <<>>
    /\ calls = <<>> /\ clock = 0 /\ jobs = <<>>
    /\ userStates = {}
    /\ cascade = [now |-> 0,
                  buckets |-> [key \in CascadeKeys |-> NoBucket],
                  gen |-> [key \in CascadeKeys |-> 1],
                  admitted |-> <<>>,
                  flushed |-> <<>>]
    /\ channelOn = FALSE
    /\ users = <<>>
    /\ received = <<>>
    /\ tasks = <<>>
    /\ liquidations = <<>>
    /\ sendLog = <<>>

NextCascade ==
    \/ \E key \in CascadeKeys : \E e \in CascadeEvents : CascadeIngest(key, e.price, e.quantity)
    \/ \E key \in CascadeKeys : CascadeFlush(key)
    \/ CascadeClock

\* the detector fed with events while its clock advances
SpecCascade == InitCascade /\ [][NextCascade]_vars

----------------------------------------------------------------------------
(* Properties of Part VIII *)

\* the events admitted to generation g of the bucket of a key
EventsOf(key, g) ==
    {k \in 1..Len(cascade.admitted) :
        cascade.admitted[k].key = key /\ cascade.admitted[k].gen = g}

RECURSIVE SumNotional(_)
SumNotional(ks) ==
    IF ks = {} THEN 0
    ELSE LET k == CHOOSE x \in ks : TRUE
         IN cascade.admitted[k].notional + SumNotional(ks \ {k})

RECURSIVE SumFlushed(_, _)
SumFlushed(key, n) ==
    IF n = 0 THEN 0
    ELSE (IF cascade.flushed[n].key = key THEN cascade.flushed[n].bucket.totalVolume ELSE 0)
         + SumFlushed(key, n - 1)

\* the cascade alerts issued, in order
CascadeTasks == SelectSeq(tasks, LAMBDA t : t.kind = "cascade")

AlertedFlushes == SelectSeq(cascade.flushed, LAMBDA f : f.alerted)

\* C22: a bucket is flushed only when its window of 10 s is over and is then
\* gone from the map; the flushed buckets that produced a cascade alert are
\* exactly those with count >= 3 and totalVolume >= 100 000, one alert each,
\* carrying the count, total volume and price extremes of the events of the
\* bucket.
C22_OneAlertPerQualifyingBucket ==
    /\ [](/\ Len(CascadeTasks) = Len(AlertedFlushes)
          /\ \A n \in 1..Len(AlertedFlushes) :
                /\ CascadeTasks[n].liq.symbol = AlertedFlushes[n].key[1]
                /\ CascadeTasks[n].liq.buffer = AlertedFlushes[n].bucket
          /\ \A n \in 1..Len(cascade.flushed) :
                LET f == cascade.flushed[n]
                    es == EventsOf(f.key, f.gen)
                IN /\ f.alerted <=> (Cardinality(es) >= 3 /\ SumNotional(es) >= 100000)
                   /\ f.bucket.count = Cardinality(es)
                   /\ f.bucket.totalVolume = SumNotional(es)
                   /\ \A k \in es : /\ f.bucket.minPrice <= cascade.admitted[k].price
                                    /\ f.bucket.maxPrice >= cascade.admitted[k].price
                   /\ \E k \in es : f.bucket.minPrice = cascade.admitted[k].price
                   /\ \E k \in es : f.bucket.maxPrice = cascade.admitted[k].price)
    /\ [][\A n \in (Len(cascade.flushed) + 1)..Len(cascade'.flushed) :
             LET f == cascade'.flushed[n] IN
             /\ cascade.now - f.bucket.startTime >= 10
             /\ cascade.buckets[f.key] = f.bucket
             /\ cascade'.buckets[f.key] # f.bucket]_vars

\* a burst of three events of 60 000, 30 000 and 10 000 USD inside one window
\* was flushed as one bucket and produced one alert of 100 000 USD, while a
\* bucket of two events was flushed without an alert
C22_Witness ==
    /\ Len(CascadeTasks) = 1
    /\ CascadeTasks[1].liq.buffer.count = 3
    /\ CascadeTasks[1].liq.buffer.totalVolume = 100000
    /\ CascadeTasks[1].liq.buffer.minPrice = 10000
    /\ CascadeTasks[1].liq.buffer.maxPrice = 20000
    /\ \E n \in 1..Len(cascade.flushed) : ~cascade.flushed[n].alerted

\* C23: for every key, the total volume of the buckets flushed so far equals
\* the notionals of the events admitted to those buckets, and the bucket still
\* open holds the notionals of the events admitted since: every admitted event
\* is counted in exactly one bucket.
C23_BucketConservation ==
    \A key \in CascadeKeys :
        LET flushedGens == {cascade.flushed[n].gen :
                               n \in {m \in 1..Len(cascade.flushed) : cascade.flushed[m].key = key}}
            flushedEvents == {k \in 1..Len(cascade.admitted) :
                                 cascade.admitted[k].key = key /\ cascade.admitted[k].gen \in flushedGens}
            openEvents == EventsOf(key, cascade.gen[key])
        IN /\ SumFlushed(key, Len(cascade.flushed)) = SumNotional(flushedEvents)
           /\ flushedGens = 1..(cascade.gen[key] - 1)
           /\ (IF cascade.buckets[key].count = 0 THEN 0 ELSE cascade.buckets[key].totalVolume)
                 = SumNotional(openEvents)

\* a bucket of two events, 60 000 and 30 000 USD, has been flushed for a key
\* and the next bucket of the key is open with a third event
C23_Witness ==
    \E key \in CascadeKeys :
        /\ cascade.gen[key] = 2
        /\ SumFlushed(key, Len(cascade.flushed)) = 90000
        /\ Cardinality(EventsOf(key, 1)) = 2
        /\ cascade.buckets[key].count = 1

\* C24: every stored event has a price and a quantity that are numbers above
\* 0, hence a notional above 0, and one of the two liquidation sides.
C24_PersistedEventsArePositive ==
    \A k \in 1..Len(liquidations) :
        LET e == liquidations[k].doc IN
        /\ ~e.price.nan /\ e.price.v > 0
        /\ ~e.quantity.nan /\ e.quantity.v > 0
        /\ ~Mul(e.price, e.quantity).nan /\ Mul(e.price, e.quantity).v > 0
        /\ e.side \in {"long liquidation", "short liquidation"}

----------------------------------------------------------------------------
(* Part IX: the settings handlers of the bot *)

\* parseInt on a text given as its characters: an optional minus sign and the
\* longest run of digits after it, NaN when there is no digit there (also for
\* a missing text); the texts of the model carry no leading blank, plus sign
\* or 0x prefix
ParseInt(str) ==
    LET negative == Len(str) > 0 /\ str[1] = "-"
        digits == IF negative THEN Tail(str) ELSE str
    IN IF Len(digits) = 0 \/ ~IsDigit(digits[1]) THEN NaN
       ELSE Num((IF negative THEN -1 ELSE 1) * PrefixValue(digits, 1, 0))

\* msg.text is one of the menu commands or starts with a slash
IsCommand(text) == Len(text) > 0 /\ text[1] = "/"

\* updateOne({ chatId }, { $set: ... }): the row of chatId with the field set,
\* nothing when there is no such row (no upsert)
UpdateOne(rows, chatId, field, value) ==
    IF RowOf(rows, chatId) = 0 THEN rows
    ELSE [rows EXCEPT ![RowOf(rows, chatId)] = [f \in DOMAIN @ |-> IF f = field THEN value ELSE @[f]]]

\* menu:threshold: showThresholdSettings reads the user and, when there is
\* one, puts the chat into awaiting_threshold
ShowThresholdSettings(chatId) ==
    /\ userStates' = IF RowOf(users, chatId) = 0 THEN userStates ELSE userStates \cup {chatId}
    /\ UNCHANGED <<connVars, pipeVars, notBot, calls>>

\* a handleMessage that parses the text whatever the state of the chat
HandleMessage_anyState(chatId, text) ==
    /\ Len(calls) < MaxCalls
    /\ LET val == ParseInt(text) IN
       calls' = IF IsCommand(text) THEN calls
                ELSE IF Geq(val, Num(0))
                THEN Append(calls, [op |-> "threshold", chatId |-> chatId, value |-> val,
                                    pc |-> "updateOne", result |-> [isNull |-> TRUE]])
                ELSE Append(calls, [op |-> "threshold", chatId |-> chatId, value |-> val,
                                    pc |-> "invalid", result |-> [isNull |-> TRUE]])
    /\ UNCHANGED <<connVars, pipeVars, notCalls>>

\* handleMessage: commands are ignored; in awaiting_threshold the text is
\* parsed, a number >= 0 is handed to updateUserAlertThreshold and anything
\* else answered with "Invalid number"; otherwise nothing happens
HandleMessage(chatId, text) ==
    /\ Len(calls) < MaxCalls
    /\ LET val == ParseInt(text) IN
       calls' = IF IsCommand(text) \/ chatId \notin userStates THEN calls
                ELSE IF Geq(val, Num(0))
                THEN Append(calls, [op |-> "threshold", chatId |-> chatId, value |-> val,
                                    pc |-> "updateOne", result |-> [isNull |-> TRUE]])
                ELSE Append(calls, [op |-> "threshold", chatId |-> chatId, value |-> val,
                                    pc |-> "invalid", result |-> [isNull |-> TRUE]])
    /\ UNCHANGED <<connVars, pipeVars, notCalls>>

\* set_interval:<payload>: updateUserReportInterval(chatId, parseInt(payload))
SetInterval(chatId, payload) ==
    /\ Len(calls) < MaxCalls
    /\ calls' = Append(calls, [op |-> "set_interval", chatId |-> chatId, value |-> ParseInt(payload),
                               pc |-> "updateOne", result |-> [isNull |-> TRUE]])
    /\ UNCHANGED <<connVars, pipeVars, notCalls>>

\* updateUserReportInterval, the updateOne settles
UpdateIntervalCompletes(c, ok) ==
    /\ calls[c].pc = "updateOne" /\ calls[c].op = "set_interval"
    /\ users' = IF ok THEN UpdateOne(users, calls[c].chatId, "reportIntervalHours", calls[c].value)
                ELSE users
    /\ calls' = [calls EXCEPT ![c].pc = IF ok THEN "getUser" ELSE "thrown"]
    /\ UNCHANGED <<channelOn, received, tasks, liquidations, sendLog>>
    /\ UNCHANGED <<connVars, notCalls>>

\* updateUserAlertThreshold, the updateOne settles
UpdateThresholdCompletes(c, ok) ==
    /\ calls[c].pc = "updateOne" /\ calls[c].op = "threshold"
    /\ users' = IF ok THEN UpdateOne(users, calls[c].chatId, "minLiquidationAlert", calls[c].value.v)
                ELSE users
    /\ calls' = [calls EXCEPT ![c].pc = IF ok THEN "getUser" ELSE "thrown"]
    /\ UNCHANGED <<channelOn, received, tasks, liquidations, sendLog>>
    /\ UNCHANGED <<connVars, notCalls>>

\* the getUser that ends both updates settles; handleMessage then leaves
\* awaiting_threshold
GetUserCompletes(c, ok) ==
    /\ calls[c].pc = "getUser"
    /\ calls' = [calls EXCEPT ![c] =
                    IF ok THEN [@ EXCEPT !.pc = "returned", !.result = FindOne(users, calls[c].chatId)]
                    ELSE [@ EXCEPT !.pc = "thrown"]]
    /\ userStates' = IF ok /\ calls[c].op = "threshold" THEN userStates \ {calls[c].chatId}
                     ELSE userStates
    /\ UNCHANGED <<connVars, pipeVars, notBot>>

\* callback payloads: the four buttons' values are 1, 4, 12 and 24; a client
\* may send any other text, or none
IntervalPayloads == {<<"4">>, <<"1", "2">>, <<"7">>, <<"0">>, <<"a">>, <<>>}

\* message texts: a number, a negative number, a number followed by letters,
\* letters, a command, and a message without text
MessageTexts == {<<"5", "0", "0">>, <<"-", "5">>, <<"5", "k">>, <<"a">>, <<"/", "s">>, <<>>}

NextSettings ==
    \/ \E firstName \in FirstNames : FindOrCreateUser(2, firstName)
    \/ \E c \in 1..Len(calls) : \E ok \in BOOLEAN : FindOneCompletes(c, ok)
    \/ \E c \in 1..Len(calls) : \E ok \in BOOLEAN : InsertOneCompletes(c, ok)
    \/ \E c \in 1..Len(calls) : \E ok \in BOOLEAN : RereadCompletes(c, ok)
    \/ \E chatId \in ChatIds : ShowThresholdSettings(chatId)
    \/ \E chatId \in ChatIds : \E text \in MessageTexts : HandleMessage(chatId, text)
    \/ \E chatId \in ChatIds : \E payload \in IntervalPayloads : SetInterval(chatId, payload)
    \/ \E c \in 1..Len(calls) : \E ok \in BOOLEAN : UpdateIntervalCompletes(c, ok)
    \/ \E c \in 1..Len(calls) : \E ok \in BOOLEAN : UpdateThresholdCompletes(c, ok)
    \/ \E c \in 1..Len(calls) : \E ok \in BOOLEAN : GetUserCompletes(c, ok)

\* /start, the interval buttons and the threshold dialogue of two chats
SpecSettings == InitCreate /\ [][NextSettings]_vars

\* indexOf / splice / push on trackedSymbols, an array that never holds a
\* symbol twice (push only after indexOf found nothing): the symbol is taken
\* out when it is there and put in when it is not
Toggled(trackedSymbols, symbol) ==
    IF symbol \in trackedSymbols THEN trackedSymbols \ {symbol} ELSE trackedSymbols \cup {symbol}

\* toggle_pair:<symbol>: toggleSymbolForUser(chatId, symbol) is called
TogglePair(chatId, symbol) ==
    /\ Len(calls) < MaxCalls
    /\ calls' = Append(calls, [op |-> "toggle_pair", chatId |-> chatId, symbol |-> symbol,
                               pc |-> "findOne:toggle", trackedSymbols |-> {},
                               result |-> [isNull |-> TRUE]])
    /\ UNCHANGED <<connVars, pipeVars, notCalls>>

\* its findOne settles: null is returned for an unknown chatId, else the new
\* list is computed from the row as read and the updateOne is issued
ToggleFindCompletes(c, ok) ==
    /\ calls[c].pc = "findOne:toggle"
    /\ LET user == FindOne(users, calls[c].chatId) IN
       calls' = [calls EXCEPT ![c] =
                    IF ~ok THEN [@ EXCEPT !.pc = "thrown"]
                    ELSE IF user.isNull THEN [@ EXCEPT !.pc = "returned"]
                    ELSE [@ EXCEPT !.pc = "updateOne:toggle", !.result = user,
                                   !.trackedSymbols = Toggled(user.row.trackedSymbols, calls[c].symbol)]]
    /\ UNCHANGED <<connVars, pipeVars, notCalls>>

\* its updateOne settles: $set of the computed list; { ...user, trackedSymbols }
\* is returned
ToggleUpdateCompletes(c, ok) ==
    /\ calls[c].pc = "updateOne:toggle"
    /\ users' = IF ok THEN UpdateOne(users, calls[c].chatId, "trackedSymbols", calls[c].trackedSymbols)
                ELSE users
    /\ calls' = [calls EXCEPT ![c] =
                    IF ok THEN [@ EXCEPT !.pc = "returned",
                                         !.result.row.trackedSymbols = calls[c].trackedSymbols]
                    ELSE [@ EXCEPT !.pc = "thrown"]]
    /\ UNCHANGED <<channelOn, received, tasks, liquidations, sendLog>>
    /\ UNCHANGED <<connVars, notCalls>>

NextToggle ==
    \/ \E chatId \in ChatIds : \E symbol \in {BTCUSDT, ETHUSDT} : TogglePair(chatId, symbol)
    \/ \E c \in 1..Len(calls) : \E ok \in BOOLEAN : ToggleFindCompletes(c, ok)
    \/ \E c \in 1..Len(calls) : \E ok \in BOOLEAN : ToggleUpdateCompletes(c, ok)
    \/ MuteRead(1)
    \/ MuteWrite

\* the pair buttons and the mute button; chatId 1 is stored or unknown,
\* chatId 2 is unknown
SpecToggle == InitCreate /\ [][NextToggle]_vars

\* two stored subscribers with thresholds of 50000 and 200000 USD
InitThreshold ==
    /\ OneOpenSocket
    /\ IdleServices
    /\ channelOn = FALSE
    /\ users = <<Row(1, {BTCUSDT}, TRUE, 50000)
                     @@ [firstName |-> "Ann", reportIntervalHours |-> Num(1), createdAt |-> 0],
                 Row(2, {BTCUSDT}, TRUE, 200000)
                     @@ [firstName |-> "Bob", reportIntervalHours |-> Num(4), createdAt |-> 0]>>
    /\ received = <<>>
    /\ tasks = <<>>
    /\ liquidations = <<>>
    /\ sendLog = <<>>

NextThreshold ==
    \/ \E chatId \in ChatIds : ShowThresholdSettings(chatId)
    \/ \E chatId \in ChatIds : \E text \in MessageTexts : HandleMessage(chatId, text)
    \/ \E c \in 1..Len(calls) : \E ok \in BOOLEAN : UpdateThresholdCompletes(c, ok)
    \/ \E c \in 1..Len(calls) : \E ok \in BOOLEAN : GetUserCompletes(c, ok)

\* the threshold dialogue of two stored chats
SpecThreshold == InitThreshold /\ [][NextThreshold]_vars

----------------------------------------------------------------------------
(* Properties of Part IX *)

\* C25: every stored row has a report interval of 1, 4, 12 or 24 hours and an
\* alert threshold of at least 0.
C25_RowsKeepIntervalAndThreshold ==
    \A k \in 1..Len(users) :
        /\ users[k].reportIntervalHours \in {Num(1), Num(4), Num(12), Num(24)}
        /\ users[k].minLiquidationAlert >= 0

\* toggleSymbolForUser call c returns a row in this step
ToggleReturns(c) ==
    /\ c \in 1..Len(calls) /\ calls[c].pc = "updateOne:toggle" /\ calls'[c].pc = "returned"

\* C30: a toggle that returns a row has flipped its symbol in the stored list
\* and nothing else: the other symbols of the row, its other fields and the
\* other rows are as before, and the row returned is the row now stored; a
\* toggle for an unknown chatId returns null, and no toggle adds a row.
C30_ToggleIsSetXor ==
    [][\A c \in 1..Len(calls) :
          /\ ToggleReturns(c) =>
               LET k == RowOf(users, calls[c].chatId) IN
               /\ k # 0 /\ Len(users') = Len(users)
               /\ users'[k].trackedSymbols = Toggled(users[k].trackedSymbols, calls[c].symbol)
               /\ users' = [users EXCEPT ![k].trackedSymbols = users'[k].trackedSymbols]
               /\ ~calls'[c].result.isNull /\ calls'[c].result.row = users'[k]
          /\ (calls[c].pc = "findOne:toggle" /\ calls'[c].pc = "returned") =>
               /\ RowOf(users, calls[c].chatId) = 0 /\ calls'[c].result.isNull
          /\ calls[c].pc \in {"findOne:toggle", "updateOne:toggle"} => Len(users') = Len(users)]_vars

\* C38: no toggle of a subscriber's list is lost.  Toggles commute, so every
\* serial order of the toggleSymbolForUser calls that wrote leaves the same
\* list: once no call is in flight a symbol is tracked exactly when it was
\* tracked at first ([BTCUSDT]) and toggled an even number of times, or was
\* not and toggled an odd number of times.
C38_NoToggleIsLost ==
    (/\ RowOf(users, 1) # 0
     /\ \A c \in 1..Len(calls) : calls[c].pc \in {"returned", "thrown"}) =>
        \A symbol \in {BTCUSDT, ETHUSDT} :
            LET written == Cardinality({c \in 1..Len(calls) :
                                           /\ calls[c].op = "toggle_pair" /\ calls[c].chatId = 1
                                           /\ calls[c].symbol = symbol /\ calls[c].pc = "returned"})
            IN (symbol \in users[RowOf(users, 1)].trackedSymbols)
                   <=> ((symbol = BTCUSDT) <=> (written % 2 = 0))

\* C39: a stored minLiquidationAlert changes only in the update started by
\* a message of the row's own chat that is no command, parses to an integer
\* >= 0 and arrived while the chat was in awaiting_threshold, and becomes that
\* integer; the call that made the update takes the chat out of the state
\* when it returns.  A message that does not parse so is answered without a
\* change of rows or states, a chat enters the state in no step of a message
\* or of an update, and leaves it only at the return of its own update.
C39_ThresholdOnlyThroughDialogue ==
    [][/\ Len(users') = Len(users)
       /\ \A k \in 1..Len(users) :
              users'[k] # users[k] =>
                  \E c \in 1..Len(calls) :
                      /\ calls[c].op = "threshold" /\ calls[c].chatId = users[k].chatId
                      /\ calls[c].pc = "updateOne" /\ calls'[c].pc = "getUser"
                      /\ ~calls[c].value.nan /\ calls[c].value.v >= 0
                      /\ users'[k] = [users[k] EXCEPT !.minLiquidationAlert = calls[c].value.v]
       /\ \A c \in 1..Len(calls) :
              /\ (calls[c].op = "threshold" /\ calls[c].pc = "updateOne" /\ calls'[c].pc = "getUser") =>
                     users'[RowOf(users, calls[c].chatId)].minLiquidationAlert = calls[c].value.v
              /\ (calls[c].op = "threshold" /\ calls[c].pc = "getUser" /\ calls'[c].pc = "returned") =>
                     calls[c].chatId \notin userStates'
              /\ calls[c].pc = "invalid" => calls'[c] = calls[c]
       /\ Len(calls') > Len(calls) =>
              LET m == calls'[Len(calls')] IN
              /\ m.op = "threshold" /\ m.chatId \in userStates
              /\ m.pc = (IF ~m.value.nan /\ m.value.v >= 0 THEN "updateOne" ELSE "invalid")
              /\ users' = users /\ userStates' = userStates
       /\ userStates' \ userStates # {} => calls' = calls /\ users' = users
       /\ \A chatId \in userStates \ userStates' :
              \E c \in 1..Len(calls) :
                  /\ calls[c].op = "threshold" /\ calls[c].chatId = chatId
                  /\ calls[c].pc = "getUser" /\ calls'[c].pc = "returned"]_vars

\* chat 1 sent "500" in awaiting_threshold and "a" before it: its threshold is
\* 500, it has left the state, and the row of chat 2 has its 200000
C39_Witness ==
    /\ users[1].minLiquidationAlert = 500 /\ users[2].minLiquidationAlert = 200000
    /\ 1 \notin userStates
    /\ \E c, d \in 1..Len(calls) :
           /\ c < d /\ calls[c].chatId = 1 /\ calls[c].pc = "invalid"
           /\ calls[d].chatId = 1 /\ calls[d].pc = "returned" /\ calls[d].value = Num(500)

----------------------------------------------------------------------------
(* Part II, the store and the fan-out of the events side by side *)

InitSave ==
    /\ OneOpenSocket
    /\ IdleServices
    /\ channelOn \in BOOLEAN
    /\ users = <<Row(1, {1}, TRUE, 50000), Row(2, {1}, TRUE, 200000)>>
    /\ received = <<>>
    /\ tasks = <<>>
    /\ liquidations = <<>>
    /\ sendLog = <<>>

NextSave ==
    \/ \E f \in PipeFrames : Receive(f)
    \/ \E t \in 1..Len(tasks) : \E ok \in BOOLEAN : InsertCompletes(t, ok)
    \/ \E t \in 1..Len(tasks) : ChannelSendCompletes(t, "ok")
    \/ \E t \in 1..Len(tasks) : \E ok \in BOOLEAN : QueryCompletes(t, ok)
    \/ \E t \in 1..Len(tasks) : \E outcome \in {"ok", "error"} : UserSendCompletes(t, outcome)

\* the pipeline with recipients that have not blocked the bot
SpecSave == InitSave /\ [][NextSave]_vars

----------------------------------------------------------------------------
(* More properties of Part II *)

\* the insert or the fan-out of event t has not completed
InHandlers(t) == tasks[t].persist = "inserting" \/ tasks[t].pc \notin {"done", "rejected"}

\* C28: at most one event of the connection is inside the downstream handlers
\* at any time: the next frame is not handled before the persist and the
\* fan-out of the previous one have completed.
C28_IngestDoesNotBuffer ==
    Cardinality({t \in 1..Len(tasks) : InHandlers(t)}) <= 1

\* C29: when the insert of an event settles, nothing but the outcome changes
\* for the event (its fan-out goes on as it was, nothing is raised); a failed
\* insert leaves the stored events as they were and a successful one appends
\* one document equal to the event after the existing ones; and the fan-out of
\* an event is started in the step that issues its insert.
C29_SaveLiquidationBestEffort ==
    [][/\ \A t \in 1..Len(tasks) :
            (tasks[t].persist = "inserting" /\ tasks'[t].persist # "inserting") =>
                /\ tasks'[t].persist \in {"saved", "failed"}
                /\ tasks' = [tasks EXCEPT ![t].persist = tasks'[t].persist]
                /\ sendLog' = sendLog
                /\ tasks'[t].persist = "failed" => liquidations' = liquidations
                /\ tasks'[t].persist = "saved" =>
                      liquidations' = Append(liquidations, [id |-> t, doc |-> tasks[t].liq])
       /\ \A t \in (Len(tasks) + 1)..Len(tasks') :
            /\ tasks'[t].persist = "inserting"
            /\ tasks'[t].pc \in {"channelSend", "query"}
            /\ liquidations' = liquidations
       /\ liquidations' # liquidations =>
            \E t \in 1..Len(tasks) : tasks[t].persist = "inserting" /\ tasks'[t].persist = "saved"]_vars

\* the insert of event 1 failed and nothing of it is stored, yet its alert was
\* sent to a subscriber and its fan-out ended; the insert of event 2 succeeded
C29_Witness ==
    /\ Len(tasks) >= 2
    /\ tasks[1].persist = "failed" /\ tasks[1].pc = "done"
    /\ \E k \in 1..Len(sendLog) : sendLog[k].task = 1 /\ sendLog[k].to # CHANNEL
    /\ tasks[2].persist = "saved"
    /\ liquidations = <<[id |-> 2, doc |-> tasks[2].liq]>>

----------------------------------------------------------------------------
(* More properties of Part III *)

\* thresholds a subscriber may have set, the rows' own and the alerts' values
\* among them
AlertThresholds == {0, 50000, 100000, 200000, 300000, 400000}

\* the filter of the loop of alert t for the k-th row it read, had that row
\* the threshold m
WouldSend(t, k, m) ==
    Qualifies([tasks[t].snap[k] EXCEPT !.minLiquidationAlert = m], tasks[t].value)

----------------------------------------------------------------------------
(* Part X: ReportingService.generateReportForUser *)

\* the bits of the significand of a Number, cut down from 53
SignificandBits == 3

RECURSIVE Pow2(_)
Pow2(n) == IF n = 0 THEN 1 ELSE 2 * Pow2(n - 1)

\* the binary digits a whole amount has beyond the significand
RECURSIVE ExcessBits(_)
ExcessBits(x) == IF x < Pow2(SignificandBits) THEN 0 ELSE 1 + ExcessBits(x \div 2)

\* the Number nearest to the whole amount x >= 0, a tie going to the even
\* significand
RoundToNumber(x) ==
    LET unit == Pow2(ExcessBits(x))
        q == x \div unit
        r == x % unit
    IN IF 2 * r > unit \/ (2 * r = unit /\ q % 2 = 1) THEN (q + 1) * unit ELSE q * unit

\* a + b and a * b on Numbers
Plus(a, b) == IF a.nan \/ b.nan THEN NaN ELSE Num(RoundToNumber(a.v + b.v))

Times(a, b) == IF a.nan \/ b.nan THEN NaN ELSE Num(RoundToNumber(a.v * b.v))

\* a > b: false as soon as one side is NaN
Gt(a, b) == ~a.nan /\ ~b.nan /\ a.v > b.v

\* an instant with its minutes: h counts the hours as ToISOString does
Instant(h, min) == [h |-> h, min |-> min]

\* date.setHours(date.getHours() - intervalHours)
HoursBefore(date, intervalHours) ==
    [date EXCEPT !.h = SetHours(date.h, GetHours(date.h) - intervalHours)]

\* date.setMinutes(0, 0, 0)
StartOfHour(date) == [date EXCEPT !.min = 0]

\* date.toISOString(), the digits of day, hour and minute
IsoAt(date) == IsoText(date.h) \o <<date.min \div 10, date.min % 10>>

\* the same digits of a stored time, whose minutes are 00 in the model
StoredIso(time) == time.iso \o <<0, 0>>

\* a filter whose upper end is $lte
Between_closed(time, startTime, endTime) ==
    /\ ~StringLess(StoredIso(time), IsoAt(startTime))
    /\ ~StringLess(IsoAt(endTime), StoredIso(time))

\* { $gte: startTime.toISOString(), $lt: endTime.toISOString() }
Between(time, startTime, endTime) ==
    /\ ~StringLess(StoredIso(time), IsoAt(startTime))
    /\ StringLess(StoredIso(time), IsoAt(endTime))

\* find({ symbol, time }).toArray() over the collection in the order the store
\* walks it; no sort is asked for
GetLiquidationsBetween(walk, symbol, startTime, endTime) ==
    SelectSeq(walk, LAMBDA e : e.doc.symbol = symbol /\ Between(e.doc.time, startTime, endTime))

\* the loop over the liquidations of one symbol, from position i
RECURSIVE SumValues(_, _, _)
SumValues(found, i, acc) ==
    IF i > Len(found) THEN acc
    ELSE LET value == Times(found[i].doc.price, found[i].doc.quantity) IN
         SumValues(found, i + 1,
                   IF found[i].doc.side = "long liquidation"
                   THEN [acc EXCEPT !.longs = Plus(@, value)]
                   ELSE [acc EXCEPT !.shorts = Plus(@, value)])

\* getStatsForPeriod from the k-th symbol on: the entries of statsMap in the
\* order they are set
RECURSIVE GetStatsForPeriod(_, _, _, _, _)
GetStatsForPeriod(walk, tracked, k, startTime, endTime) ==
    IF k > Len(tracked) THEN <<>>
    ELSE LET found == GetLiquidationsBetween(walk, tracked[k], startTime, endTime)
             sums == SumValues(found, 1, [longs |-> Num(0), shorts |-> Num(0)])
         IN (IF Len(found) > 0 /\ (Gt(sums.longs, Num(0)) \/ Gt(sums.shorts, Num(0)))
             THEN <<[symbol |-> tracked[k], longs |-> sums.longs, shorts |-> sums.shorts]>>
             ELSE <<>>)
            \o GetStatsForPeriod(walk, tracked, k + 1, startTime, endTime)

\* previousStats.get(symbol) || { longs: 0, shorts: 0 }
StatsGet(stats, symbol) ==
    IF \E k \in 1..Len(stats) : stats[k].symbol = symbol
    THEN stats[CHOOSE k \in 1..Len(stats) : stats[k].symbol = symbol]
    ELSE [symbol |-> symbol, longs |-> Num(0), shorts |-> Num(0)]

\* the four ends of the two periods
Periods(now, intervalHours, isScheduled) ==
    LET reportPeriodStart == IF isScheduled THEN HoursBefore(now, intervalHours)
                             ELSE StartOfHour(now)
    IN [reportPeriodStart |-> reportPeriodStart, reportPeriodEnd |-> now,
        previousPeriodStart |-> HoursBefore(reportPeriodStart, intervalHours),
        previousPeriodEnd |-> reportPeriodStart]

\* the arrow of a line: the current sum against the previous one, which a
\* live report first multiplies by minutesPassed / (intervalHours * 60)
Trend(current, previous, periods, intervalHours, isScheduled) ==
    LET minutesPassed == (periods.reportPeriodEnd.h - periods.reportPeriodStart.h) * 60
                             + periods.reportPeriodEnd.min - periods.reportPeriodStart.min
        num == IF isScheduled THEN previous.v ELSE previous.v * minutesPassed
        den == IF isScheduled THEN 1 ELSE intervalHours * 60
    IN IF current.nan \/ previous.nan THEN ""
       ELSE IF current.v * den > num THEN "up"
       ELSE IF current.v * den < num THEN "down"
       ELSE ""

\* value.toLocaleString('en-US', two fraction digits) of a whole amount, the
\* grouping commas left out
FormatCurrency(value) ==
    IF value.nan THEN <<"N", "a", "N">> ELSE NumText(value.v) \o <<".", "0", "0">>

\* the lines of one side, from the k-th entry of currentStats on
RECURSIVE SideReport(_, _, _, _, _, _, _)
SideReport(side, currentStats, previousStats, k, periods, intervalHours, isScheduled) ==
    IF k > Len(currentStats) THEN <<>>
    ELSE LET current == currentStats[k]
             previous == StatsGet(previousStats, current.symbol)
         IN (IF Gt(current[side], Num(0))
             THEN <<[symbol |-> current.symbol, amount |-> FormatCurrency(current[side]),
                     trend |-> Trend(current[side], previous[side], periods, intervalHours,
                                     isScheduled)]>>
             ELSE <<>>)
            \o SideReport(side, currentStats, previousStats, k + 1, periods, intervalHours,
                          isScheduled)

\* totalLongsValue / totalShortsValue after the loop, from the k-th entry on
RECURSIVE SideTotal(_, _, _, _)
SideTotal(side, currentStats, k, acc) ==
    IF k > Len(currentStats) THEN acc
    ELSE SideTotal(side, currentStats, k + 1,
                   IF Gt(currentStats[k][side], Num(0)) THEN Plus(acc, currentStats[k][side])
                   ELSE acc)

\* sort((a, b) => b[1][side] - a[1][side]), which keeps equal entries in order:
\* entry x put into a sorted list
RECURSIVE InsertDescending(_, _, _)
InsertDescending(side, x, sorted) ==
    IF Len(sorted) = 0 THEN <<x>>
    ELSE IF Gt(x[side], sorted[1][side]) THEN <<x>> \o sorted
    ELSE <<sorted[1]>> \o InsertDescending(side, x, Tail(sorted))

RECURSIVE SortDescending(_, _, _)
SortDescending(side, entries, k) ==
    IF k = 0 THEN <<>>
    ELSE InsertDescending(side, entries[k], SortDescending(side, entries, k - 1))

\* getTopThree(side)
GetTopThree(side, currentStats) ==
    LET entries == SelectSeq(currentStats, LAMBDA e : Gt(e[side], Num(0)))
        sorted == SortDescending(side, entries, Len(entries))
    IN [k \in 1..Min(3, Len(sorted)) |->
           [symbol |-> sorted[k].symbol, amount |-> FormatCurrency(sorted[k][side])]]

\* user.trackedSymbols in the order of the array
SymbolsOf(user) == SelectSeq(<<BTCUSDT, ETHUSDT>>, LAMBDA sym : sym \in user.trackedSymbols)

\* generateReportForUser(user, intervalHours, isScheduled) at the instant now,
\* the store walking its collection in the order of walk: the parts of the
\* message, or the 'No liquidations recorded' text
GenerateReportForUser(user, intervalHours, isScheduled, now, walk) ==
    LET periods == Periods(now, intervalHours, isScheduled)
        currentStats == GetStatsForPeriod(walk, SymbolsOf(user), 1,
                                          periods.reportPeriodStart, periods.reportPeriodEnd)
        previousStats == GetStatsForPeriod(walk, SymbolsOf(user), 1,
                                           periods.previousPeriodStart, periods.previousPeriodEnd)
        longsReport == SideReport("longs", currentStats, previousStats, 1, periods,
                                  intervalHours, isScheduled)
        shortsReport == SideReport("shorts", currentStats, previousStats, 1, periods,
                                   intervalHours, isScheduled)
    IN IF Len(currentStats) = 0 THEN [text |-> "No liquidations recorded"]
       ELSE IF Len(longsReport) = 0 /\ Len(shortsReport) = 0 THEN [text |-> "null"]
       ELSE [text |-> "report", isScheduled |-> isScheduled, intervalHours |-> intervalHours,
             longsReport |-> longsReport, shortsReport |-> shortsReport,
             totalLongsValue |-> FormatCurrency(SideTotal("longs", currentStats, 1, Num(0))),
             totalShortsValue |-> FormatCurrency(SideTotal("shorts", currentStats, 1, Num(0))),
             topLongs |-> GetTopThree("longs", currentStats),
             topShorts |-> GetTopThree("shorts", currentStats)]

\* the orders in which the store may walk n documents
WalkOrders(n) == {order \in [1..n -> 1..n] : \A i, j \in 1..n : order[i] = order[j] => i = j}

\* a report is asked for chatId ('Report Now' or the scheduler) at the instant
\* now and generated against the stored events
GenerateReport(chatId, isScheduled, now, order) ==
    /\ Len(calls) < MaxCalls
    /\ RowOf(users, chatId) # 0
    /\ LET user == users[RowOf(users, chatId)]
           walk == [i \in 1..Len(liquidations) |-> liquidations[order[i]]]
       IN calls' = Append(calls, [op |-> "report", chatId |-> chatId, isScheduled |-> isScheduled,
                                  intervalHours |-> user.reportIntervalHours.v, now |-> now,
                                  pc |-> "returned",
                                  result |-> GenerateReportForUser(user, user.reportIntervalHours.v,
                                                                   isScheduled, now, walk)])
    /\ UNCHANGED <<connVars, pipeVars, notCalls>>

\* a stored liquidation of quantity * 1 USD
StoredEvent(id, symbol, S, quantity, h) ==
    [id |-> id,
     doc |-> [Liquidation(Order(S, NumText(1), NumText(quantity), [valid |-> TRUE, ms |-> h]))
                  EXCEPT !.symbol = symbol]]

\* the frozen events: long liquidations of BTCUSDT of 8, 1 and 1 USD at 23:00
\* and of 10 USD at 22:00
ReportEvents ==
    <<StoredEvent(1, BTCUSDT, "SELL", 8, 71), StoredEvent(2, BTCUSDT, "SELL", 1, 71),
      StoredEvent(3, BTCUSDT, "SELL", 1, 71), StoredEvent(4, BTCUSDT, "SELL", 10, 70)>>

\* 00:00, when the scheduler calls, and 23:30
ReportInstants == {Instant(72, 0), Instant(71, 30)}

InitReport ==
    /\ OneOpenSocket
    /\ IdleServices
    /\ channelOn = FALSE
    /\ users = <<Row(1, {BTCUSDT, ETHUSDT}, TRUE, 50000) @@ [reportIntervalHours |-> Num(1)],
                 Row(2, {ETHUSDT}, TRUE, 50000) @@ [reportIntervalHours |-> Num(4)]>>
    /\ received = <<>>
    /\ tasks = <<>>
    /\ liquidations = ReportEvents
    /\ sendLog = <<>>

NextReport ==
    \E chatId \in ChatIds : \E isScheduled \in BOOLEAN : \E now \in ReportInstants :
        \E order \in WalkOrders(Len(liquidations)) : GenerateReport(chatId, isScheduled, now, order)

\* reports generated again and again over the same stored events
SpecReport == InitReport /\ [][NextReport]_vars

----------------------------------------------------------------------------
(* Properties of Part X *)

----------------------------------------------------------------------------
(* Properties of toggleUserNotifications *)

\* C31: toggleUserNotifications(chatId, false), the call of a blocked send,
\* computes and writes false whatever the flag was; toggleUserNotifications(chatId),
\* the call of menu:mute, computes the negation of the flag it read.
C31_SetWhenGivenFlipWhenOmitted ==
    [][/\ \A t \in 1..Len(tasks) :
            /\ (tasks[t].pc = "toggleRead" /\ tasks'[t].pc = "toggleWrite") =>
                   tasks'[t].newStatus = FALSE
            /\ (tasks[t].pc = "toggleWrite" /\ tasks'[t].pc \notin {"toggleWrite", "rejected"}) =>
                   LET k == RowOf(users, tasks[t].snap[tasks[t].i].chatId) IN
                   k # 0 => ~users'[k].notificationsEnabled
       /\ Len(muting') > Len(muting) =>
            LET call == muting'[Len(muting')] IN
            call.newStatus = ~users[RowOf(users, call.chatId)].notificationsEnabled]_vars

----------------------------------------------------------------------------
(* More properties of Part V *)

\* C32: the step that ends the pass of a symbol with stats writes the current
\* total under the symbol's key with a TTL of 24 h, whether a surge was pushed
\* or not and whatever was stored before; a pass without stats writes nothing;
\* and only such a write or an expiry changes a snapshot.
C32_SnapshotAlwaysOverwritten ==
    [][/\ Len(scanLog') = Len(scanLog) + 1 =>
            LET pass == scanLog'[Len(scanLog')] IN
            IF pass.hasStats
            THEN cache' = [cache EXCEPT ![pass.symbol] =
                              [present |-> TRUE, v |-> pass.total, ttl |-> 24 * 60 * 60]]
            ELSE cache' = cache
       /\ Len(scanLog') = Len(scanLog) =>
            \A base \in ScanBases : cache'[base] \in {cache[base], NoEntry}]_vars

\* a pass wrote 1000 USD without a surge (there was no snapshot), and the next
\* pass of the symbol found 975 USD, pushed a surge and left 975 USD
C32_Witness ==
    \E k \in 1..Len(scanLog) : \E m \in 1..Len(scanLog) :
        /\ NextPassOfSymbol(k, m)
        /\ scanLog[k].hasStats /\ ~scanLog[k].surged /\ scanLog[k].total = 1000 * Unit
        /\ scanLog[m].hasStats /\ scanLog[m].had /\ scanLog[m].last = 1000 * Unit
        /\ scanLog[m].total = 975 * Unit /\ scanLog[m].surged
        /\ cache[scanLog[m].symbol] = [present |-> TRUE, v |-> 975 * Unit, ttl |-> 24 * 60 * 60]

----------------------------------------------------------------------------
(* More properties of Part IV *)

\* C33: a request that arrives while a result for its base symbol is in the
\* cache, less than 60 s old, does not query the venues.
C33_RepeatedRequestServedFromCache ==
    [][(agg.pc # "fetching" /\ agg'.pc = "fetching") =>
          ~(agg.entry.present /\ agg.entry.age < 60
            /\ agg.entry.stats.symbol = NormalizeSymbol(agg'.symbolInput))]_vars

----------------------------------------------------------------------------
(* Part XI: RedisService.getOrFetch *)

MaxFetches == 3

\* the keys read through getOrFetch and the ttlSeconds passed with each
CacheKeys == {"mexc_size:BTC_USDT", "stats_binance:BTCUSDT"}

KeyTtl(key) == IF key = "mexc_size:BTC_USDT" THEN 86400 ELSE 120

\* what a producer resolves to: null, 0 (safeFloat of an unusable
\* contractSize) or a positive number
FetchResults == {[isNull |-> TRUE, v |-> 0]} \cup {[isNull |-> FALSE, v |-> n] : n \in 0..2}

\* getOrFetch(key, fetchFn, ttlSeconds) is entered: it awaits this.get(key)
GetOrFetch(key) ==
    /\ Len(calls) < MaxFetches
    /\ calls' = Append(calls, [op |-> "getOrFetch", key |-> key, ttlSeconds |-> KeyTtl(key),
                               pc |-> "get", held |-> FALSE,
                               cached |-> [isNull |-> TRUE, v |-> 0],
                               freshData |-> [isNull |-> TRUE, v |-> 0],
                               fetched |-> 0, stored |-> FALSE,
                               result |-> [isNull |-> TRUE, v |-> 0]])
    /\ UNCHANGED <<cache, scan, scanLog>>
    /\ UNCHANGED <<connVars, pipeVars, notCalls>>

\* const cached = await this.get<T>(key); if (cached) return cached;
CachedRead(c) ==
    /\ calls[c].pc = "get"
    /\ LET cached == RedisGet(cache[calls[c].key])
       IN calls' = [calls EXCEPT ![c] =
                        [@ EXCEPT !.held = cache[calls[c].key].present,
                                  !.cached = cached,
                                  !.pc = IF Truthy(cached) THEN "returned" ELSE "fetch",
                                  !.result = IF Truthy(cached) THEN cached ELSE @]]
    /\ UNCHANGED <<cache, scan, scanLog>>
    /\ UNCHANGED <<connVars, pipeVars, notCalls>>

\* a getOrFetch that sets whatever the producer resolved to
FetchCompletes_storesAll(c, value) ==
    /\ calls[c].pc = "fetch"
    /\ calls' = [calls EXCEPT ![c] =
                    [@ EXCEPT !.freshData = value, !.fetched = @ + 1, !.pc = "set"]]
    /\ UNCHANGED <<cache, scan, scanLog>>
    /\ UNCHANGED <<connVars, pipeVars, notCalls>>

\* const freshData = await fetchFn(); if (freshData) { await this.set(...) }
\* return freshData
FetchCompletes(c, value) ==
    /\ calls[c].pc = "fetch"
    /\ calls' = [calls EXCEPT ![c] =
                    [@ EXCEPT !.freshData = value,
                              !.fetched = @ + 1,
                              !.pc = IF Truthy(value) THEN "set" ELSE "returned",
                              !.result = IF Truthy(value) THEN @ ELSE value]]
    /\ UNCHANGED <<cache, scan, scanLog>>
    /\ UNCHANGED <<connVars, pipeVars, notCalls>>

\* set: if (ttlSeconds) setex(key, ttlSeconds, data) else set(key, data);
\* a ttl of 0 in the entry stands for no expiry
RedisSet(value, ttlSeconds) == [present |-> TRUE, v |-> value.v, ttl |-> ttlSeconds]

\* await this.set(key, freshData, ttlSeconds); return freshData
SetCompletes(c) ==
    /\ calls[c].pc = "set"
    /\ cache' = [cache EXCEPT ![calls[c].key] = RedisSet(calls[c].freshData, calls[c].ttlSeconds)]
    /\ calls' = [calls EXCEPT ![c] =
                    [@ EXCEPT !.pc = "returned", !.stored = TRUE,
                              !.result = calls[c].freshData]]
    /\ UNCHANGED <<scan, scanLog>>
    /\ UNCHANGED <<connVars, pipeVars, muting, agg, cronVars, botVars>>

InitCache ==
    /\ OneOpenSocket
    /\ IdlePipeline
    /\ muting = <<>> /\ agg = [pc |-> "idle"]
    /\ calls = <<>> /\ clock = 0 /\ jobs = <<>>
    /\ cascade = <<>> /\ userStates = {}
    /\ cache = [key \in CacheKeys |-> NoEntry]
    /\ scan = [pc |-> "idle"]
    /\ scanLog = <<>>

NextCache ==
    \/ \E key \in CacheKeys : GetOrFetch(key)
    \/ \E c \in 1..Len(calls) : CachedRead(c)
    \/ \E c \in 1..Len(calls) : \E value \in FetchResults : FetchCompletes(c, value)
    \/ \E c \in 1..Len(calls) : SetCompletes(c)
    \/ \E key \in CacheKeys : Expire(key)

\* concurrent getOrFetch calls on two keys while the keys expire
SpecCache == InitCache /\ [][NextCache]_vars

----------------------------------------------------------------------------
(* Properties of Part XI *)

\* C34: getOrFetch is read-through.  A call whose read finds the key held
\* (set and not expired) returns the held value and never invokes the
\* producer; a call that missed invokes the producer exactly once and returns
\* what it resolved to; and a key is written only by a call that missed, with
\* the non-null result of its producer and the ttl of that call.
C34_GetOrFetchIsReadThrough ==
    /\ [](\A c \in 1..Len(calls) :
            /\ calls[c].fetched <= 1
            /\ calls[c].pc = "returned" =>
                 IF calls[c].held
                 THEN calls[c].fetched = 0 /\ ~calls[c].stored /\ calls[c].result = calls[c].cached
                 ELSE calls[c].fetched = 1 /\ calls[c].result = calls[c].freshData)
    /\ [][/\ \A c \in 1..Len(calls) :
               (calls[c].pc = "get" /\ calls'[c].pc # "get" /\ cache[calls[c].key].present) =>
                   /\ calls'[c].pc = "returned"
                   /\ calls'[c].result = [isNull |-> FALSE, v |-> cache[calls[c].key].v]
          /\ \A key \in CacheKeys :
               (cache'[key] # cache[key] /\ cache'[key].present) =>
                   \E c \in 1..Len(calls) :
                       /\ calls[c].key = key /\ ~calls[c].held /\ calls[c].fetched = 1
                       /\ ~calls[c].freshData.isNull
                       /\ calls'[c].pc = "returned" /\ calls'[c].result = calls[c].freshData
                       /\ cache'[key] = [present |-> TRUE, v |-> calls[c].freshData.v,
                                         ttl |-> calls[c].ttlSeconds]]_vars

\* one call missed, stored what its producer gave and returned it; a later
\* call found the key held and returned the same value without the producer
C34_Witness ==
    \E c, d \in 1..Len(calls) :
        /\ c < d /\ calls[c].key = calls[d].key
        /\ calls[c].pc = "returned" /\ ~calls[c].held /\ calls[c].stored /\ calls[c].fetched = 1
        /\ calls[d].pc = "returned" /\ calls[d].held /\ calls[d].fetched = 0
        /\ calls[d].result = calls[c].freshData

----------------------------------------------------------------------------
(* Part X, the two periods of a report *)

\* long liquidations of BTCUSDT of 1, 2, 4 and 8 USD at 21:00, 22:00, 23:00
\* and 00:00, one on every period end of the reports below
WindowEvents ==
    <<StoredEvent(1, BTCUSDT, "SELL", 1, 69), StoredEvent(2, BTCUSDT, "SELL", 2, 70),
      StoredEvent(3, BTCUSDT, "SELL", 4, 71), StoredEvent(4, BTCUSDT, "SELL", 8, 72)>>

InitWindows ==
    /\ OneOpenSocket
    /\ IdleServices
    /\ channelOn = FALSE
    /\ users = <<Row(1, {BTCUSDT}, TRUE, 50000) @@ [reportIntervalHours |-> Num(1)],
                 Row(2, {BTCUSDT}, TRUE, 50000) @@ [reportIntervalHours |-> Num(2)]>>
    /\ received = <<>>
    /\ tasks = <<>>
    /\ liquidations = WindowEvents
    /\ sendLog = <<>>

NextWindows ==
    \E chatId \in ChatIds : \E isScheduled \in BOOLEAN : \E now \in ReportInstants :
        GenerateReport(chatId, isScheduled, now, [i \in 1..Len(liquidations) |-> i])

\* scheduled and live reports of intervals 1 and 2 at 00:00 and at 23:30
SpecWindows == InitWindows /\ [][NextWindows]_vars

\* the minutes from the first of the month to an instant, and to the instant
\* a stored time names
MinuteOf(date) == date.h * 60 + date.min

MinuteOfStored(time) ==
    (((time.iso[1] * 10 + time.iso[2]) - 1) * 24 + time.iso[3] * 10 + time.iso[4]) * 60

\* the notional of the stored events from minute lo up to, not including,
\* minute hi: each event of the model is 1 USD x its quantity
RECURSIVE NotionalFromTo(_, _, _)
NotionalFromTo(lo, hi, k) ==
    IF k = 0 THEN 0
    ELSE NotionalFromTo(lo, hi, k - 1)
         + (IF lo <= MinuteOfStored(liquidations[k].doc.time)
                  /\ MinuteOfStored(liquidations[k].doc.time) < hi
            THEN liquidations[k].doc.price.v * liquidations[k].doc.quantity.v ELSE 0)

\* C35: a scheduled report sums [now - H, now) and compares with
\* [now - 2H, now - H); a live report sums [start of hour, now) and compares
\* with [start of hour - H, start of hour).  The periods are half-open and
\* adjacent: an event on a period's start is counted in that period only, an
\* event at now in neither.
C35_PeriodsHalfOpenAndAdjacent ==
    \A c \in 1..Len(calls) :
        calls[c].op = "report" =>
            LET end == MinuteOf(calls[c].now)
                start == IF calls[c].isScheduled THEN end - calls[c].intervalHours * 60
                         ELSE end - calls[c].now.min
                current == NotionalFromTo(start, end, Len(liquidations))
                previous == NotionalFromTo(start - calls[c].intervalHours * 60, start,
                                           Len(liquidations))
                comparison == IF calls[c].isScheduled THEN previous * calls[c].intervalHours * 60
                              ELSE previous * (end - start)
                result == calls[c].result
            IN IF current = 0 THEN result.text = "No liquidations recorded"
               ELSE /\ result.text = "report"
                    /\ result.totalLongsValue = FormatCurrency(Num(current))
                    /\ Len(result.longsReport) = 1
                    /\ result.longsReport[1].amount = FormatCurrency(Num(current))
                    /\ result.longsReport[1].trend =
                           IF current * calls[c].intervalHours * 60 > comparison THEN "up"
                           ELSE IF current * calls[c].intervalHours * 60 < comparison THEN "down"
                           ELSE ""

\* the scheduled report of interval 1 at 00:00: the event at 23:00, on the
\* boundary of the two periods, is its current sum, the event at 22:00 its
\* previous one, and the event at 00:00 is left out
C35_Witness ==
    \E c \in 1..Len(calls) :
        /\ calls[c].op = "report" /\ calls[c].isScheduled
        /\ calls[c].intervalHours = 1 /\ calls[c].now = Instant(72, 0)
        /\ calls[c].result.text = "report"
        /\ calls[c].result.totalLongsValue = FormatCurrency(Num(4))
        /\ calls[c].result.longsReport[1].trend = "up"

----------------------------------------------------------------------------
(* Part X, the sections of a report over events as the pipeline stores them *)

\* a long liquidation of BTCUSDT of 8 USD at 23:00 and one stored at 23:00
\* from a frame whose p was "a" (price NaN); short liquidations of ETHUSDT of
\* 2 USD at 23:00 and of 4 USD at 22:00
SectionEvents ==
    <<StoredEvent(1, BTCUSDT, "SELL", 8, 71),
      [id |-> 2,
       doc |-> [Liquidation(Order("SELL", <<"a">>, NumText(1), [valid |-> TRUE, ms |-> 71]))
                    EXCEPT !.symbol = BTCUSDT]],
      StoredEvent(3, ETHUSDT, "BUY", 2, 71), StoredEvent(4, ETHUSDT, "BUY", 4, 70)>>

InitSections ==
    /\ OneOpenSocket
    /\ IdleServices
    /\ channelOn = FALSE
    /\ users = <<Row(1, {BTCUSDT, ETHUSDT}, TRUE, 50000) @@ [reportIntervalHours |-> Num(1)],
                 Row(2, {ETHUSDT}, TRUE, 50000) @@ [reportIntervalHours |-> Num(2)]>>
    /\ received = <<>>
    /\ tasks = <<>>
    /\ liquidations = SectionEvents
    /\ sendLog = <<>>

\* reports over the stored events, well-formed or not
SpecSections == InitSections /\ [][NextWindows]_vars

\* the notional a symbol has on one side from minute lo up to, not including,
\* minute hi: the sum of price x quantity over its stored events there that
\* have a price and a quantity
RECURSIVE NotionalOf(_, _, _, _, _)
NotionalOf(symbol, side, lo, hi, k) ==
    IF k = 0 THEN 0
    ELSE NotionalOf(symbol, side, lo, hi, k - 1)
         + (LET doc == liquidations[k].doc IN
            IF /\ doc.symbol = symbol
               /\ doc.side = (IF side = "longs" THEN "long liquidation" ELSE "short liquidation")
               /\ lo <= MinuteOfStored(doc.time) /\ MinuteOfStored(doc.time) < hi
               /\ ~doc.price.nan /\ ~doc.quantity.nan
            THEN doc.price.v * doc.quantity.v ELSE 0)

\* the lines of one side's section in what generateReportForUser returned
SectionOf(result, side) ==
    IF result.text # "report" THEN <<>>
    ELSE IF side = "longs" THEN result.longsReport ELSE result.shortsReport

\* C36: a tracked symbol has a line in a side's section exactly when its
\* current notional on that side is not zero; the line's arrow is up when the
\* current notional is above the comparison, down when below and absent when
\* equal, the comparison being the previous period's notional, for a live
\* report times minutesPassed / (H x 60); a side without such a symbol has no
\* section.
C36_SectionsAndArrows ==
    \A c \in 1..Len(calls) :
        calls[c].op = "report" =>
            LET end == MinuteOf(calls[c].now)
                H == calls[c].intervalHours
                start == IF calls[c].isScheduled THEN end - H * 60 ELSE end - calls[c].now.min
                n == Len(liquidations)
                tracked == users[RowOf(users, calls[c].chatId)].trackedSymbols
            IN \A side \in {"longs", "shorts"} :
                   LET lines == SectionOf(calls[c].result, side) IN
                   /\ \A sym \in tracked :
                          (\E k \in 1..Len(lines) : lines[k].symbol = sym)
                              <=> NotionalOf(sym, side, start, end, n) # 0
                   /\ \A k \in 1..Len(lines) :
                          LET current == NotionalOf(lines[k].symbol, side, start, end, n)
                              previous == NotionalOf(lines[k].symbol, side, start - H * 60, start, n)
                              comparison == IF calls[c].isScheduled THEN previous * H * 60
                                            ELSE previous * (end - start)
                          IN /\ lines[k].symbol \in tracked
                             /\ lines[k].trend = IF current * H * 60 > comparison THEN "up"
                                                 ELSE IF current * H * 60 < comparison THEN "down"
                                                 ELSE ""

====
